---- MODULE Spec2Model ----
(***************************************************************************)
(* Verification model of the Visual-Doc RAG server:                        *)
(*   - chunkText                (src/services/chunk.js, lines 1-14)        *)
(*   - initializeEmbedder /                                                *)
(*     embedTexts               (src/services/chunk.js, lines 31-112)       *)
(*   - vectorSearch, generateAnswer and its handlers,                      *)
(*     queryRAG                 (src/services/query.js)                    *)
(*   - processFileAndIndex      (src/services/ingest.js)                   *)
(*   - POST / of the upload     (src/routes/uploadRoutes.js)               *)
(* Strings are sequences of one-character strings, so that split, join,    *)
(* trim, toLowerCase and includes are computed and not assumed.            *)
(* Similarity scores are hundredths (0.4 is 40).                           *)
(***************************************************************************)
EXTENDS Integers, Sequences, FiniteSets, TLC

VARIABLES
  \* ---- chunkText -------------------------------------------------------
  text,        \* the argument `text`
  maxLen,      \* option maxLen
  overlap,     \* option overlap
  words,       \* const words = text.split(/\s+/)
  i,           \* loop variable i (start index of the next window, 0-based)
  idx,         \* loop variable idx
  chunks,      \* the array `chunks` (the text field of each pushed chunk)
  wins,        \* per pushed chunk: the value of i and window.length
  cpc,         \* position in chunkText: "off", "call", "loop", "done"
  \* ---- initializeEmbedder / embedTexts (one entry per caller) ----------
  embedder,    \* module variable `embedder`: 0 is null, else a model instance
  loads,       \* number of times pipeline(...) has been invoked
  epc,         \* position of each embedTexts call
  texts,       \* argument `texts` of each call
  hasCb,       \* whether the call was given a progressCallback
  loadId,      \* the model instance the caller's own pipeline(...) call builds
  model,       \* const model of each call (0: not yet obtained)
  ei,          \* loop variable i of each call (0-based)
  embeddings,  \* the array `embeddings` of each call
  failed,      \* indices whose model(cleanText) call rejected
  ret,         \* the array each call returned
  events,      \* what each call passed to its progressCallback, in order
  \* ---- vectorSearch / generateAnswer -----------------------------------
  topK,            \* argument topK
  sourceFilter,    \* argument sourceFilter (<<>>: none)
  request,         \* numCandidates and limit asked of the vector store
  nearest,         \* what the $vectorSearch stage hands on to the next stages
  fetched,         \* const results = await collection.aggregate(pipeline).toArray()
  hits,            \* the array vectorSearch returned
  contextsBySource,\* generateAnswer: the groups, in key order
  primarySource,   \* generateAnswer: Object.keys(contextsBySource)[0]
  primaryContexts, \* generateAnswer: contextsBySource[primarySource]
  documentType,    \* generateAnswer: detectDocumentType(primaryContexts)
  question,        \* argument question
  answer,          \* the string generateAnswer returned
  handler,         \* generateAnswer: the branch whose return statement ran
  response,        \* the object queryRAG returned
  qpc,             \* position of the query: "off", "embed", "search", "answer", "return",
                   \* "done", "failed" (queryRAG rejected)
  \* ---- upload route / processFileAndIndex (one entry per file) ---------
  files,       \* req.files
  fk,          \* number of files the for loop is through with
  rpc,         \* position of the request: "off", "start", "loop", "await",
               \* "ok" (200), "bad" (400), "error" (500)
  ingested,    \* the array `ingested`
  timedOut,    \* files whose timeout promise won the race
  fpc,         \* position of each processFileAndIndex call: "idle", "extract",
               \* "embed", "insert", "returned", "threw"
  records,     \* let records of each call
  docs,        \* const docs of each call
  result,      \* the count each call returned
  store,       \* the Chunk collection, in insertion order
  staged,      \* the uploaded files still on disk
  conn,        \* app.locals.sseConnections[sessionId]: "none", "open", or
               \* "broken" (a connection whose write throws)
  timer,       \* the completion timer: "unset", "set", "fired", "uncaught"
  resError,    \* the error of the response, "none" without one
  thrown,      \* the error each processFileAndIndex call rejected with
  sse          \* the events written to the connection, in order

chunkVars == <<text, maxLen, overlap, words, i, idx, chunks, wins, cpc>>

embedVars == <<embedder, loads, epc, texts, hasCb, loadId, model, ei,
               embeddings, failed, ret, events>>

queryVars == <<topK, sourceFilter, request, nearest, fetched, hits, contextsBySource,
               primarySource, primaryContexts, documentType, question, answer,
               handler, response, qpc>>

ingestVars == <<files, fk, rpc, ingested, timedOut, fpc, records, docs, result, store, staged,
                conn, timer, resError, thrown>>

vars == <<chunkVars, embedVars, queryVars, ingestVars, sse>>

(***************************************************************************)
(* Bounds                                                                  *)
(***************************************************************************)
MaxTextLen  == 5     \* longest enumerated input text, in characters
MaxMaxLen   == 4     \* largest enumerated maxLen
MaxOverlap  == 4     \* largest enumerated overlap
MaxBatch    == 4     \* longest batch of a lone embedTexts call
MaxCallers  == 2     \* concurrent embedTexts calls
MaxConcBatch == 1    \* longest batch of each concurrent call
MaxHits     == 3     \* most results the vector store hands back
MaxTopK     == 3     \* largest enumerated topK
MaxContexts == 2     \* longest list of contexts generateAnswer is given on its own
MaxFiles    == 2     \* most files of one upload request

(***************************************************************************)
(* String helpers                                                          *)
(***************************************************************************)
Max(a, b) == IF a >= b THEN a ELSE b
Min(a, b) == IF a <= b THEN a ELSE b

IsSpace(c) == c = " "

\* Array.prototype.slice(from, to) with 0 <= from, 0 <= to (0-based, to exclusive)
Slice(arr, from, to) == SubSeq(arr, from + 1, Min(to, Len(arr)))

\* String.prototype.split(/\s+/) on s[lo..hi]: the tokens between maximal runs
\* of whitespace; a leading or trailing run leaves an empty token, and the
\* empty string gives one empty token.  Computed by halving the range.
RECURSIVE SplitRange(_, _, _)
SplitRange(s, lo, hi) ==
  IF lo > hi THEN << <<>> >>
  ELSE IF lo = hi THEN (IF IsSpace(s[lo]) THEN << <<>>, <<>> >> ELSE << <<s[lo]>> >>)
  ELSE LET mid == (lo + hi) \div 2
           L   == SplitRange(s, lo, mid)
           R   == SplitRange(s, mid + 1, hi)
       IN  IF IsSpace(s[mid]) /\ IsSpace(s[mid + 1])
             THEN \* one run of whitespace crosses the cut: one separator
                  SubSeq(L, 1, Len(L) - 1) \o Tail(R)
             ELSE \* the token crossing the cut is the last of L plus the first of R
                  SubSeq(L, 1, Len(L) - 1) \o << L[Len(L)] \o Head(R) >> \o Tail(R)

SplitWS(s) == SplitRange(s, 1, Len(s))

\* Array.prototype.join(' ') on arr[lo..hi], computed by halving the range
RECURSIVE JoinRange(_, _, _)
JoinRange(arr, lo, hi) ==
  IF lo > hi THEN <<>>
  ELSE IF lo = hi THEN arr[lo]
  ELSE LET mid == (lo + hi) \div 2
       IN  JoinRange(arr, lo, mid) \o <<" ">> \o JoinRange(arr, mid + 1, hi)

JoinSp(arr) == JoinRange(arr, 1, Len(arr))

\* String.prototype.trim()
Trim(s) ==
  LET solid == { p \in 1..Len(s) : ~IsSpace(s[p]) }
  IN  IF solid = {} THEN <<>>
      ELSE SubSeq(s, CHOOSE p \in solid : \A q \in solid : p <= q,
                     CHOOSE p \in solid : \A q \in solid : p >= q)

\* String.prototype.substring(0, n)
Substring0(s, n) == SubSeq(s, 1, Min(n, Len(s)))

(***************************************************************************)
(* initializeEmbedder / embedTexts                                         *)
(***************************************************************************)
Callers == 1..MaxCallers

EmbeddingDim == 384      \* new Array(384).fill(0)
MaxCleanLen  == 512      \* substring(0, 512)

ZeroVector == [d \in 1..EmbeddingDim |-> 0]

\* The sentence-transformer (external): a fixed non-zero vector of
\* EmbeddingDim numbers per cleaned text, the same for every loaded instance.
ModelOutput(clean) ==
  [d \in 1..EmbeddingDim |->
     1 + Len(clean) + (IF clean[((d - 1) % Len(clean)) + 1] = "a" THEN 0 ELSE d)]

\* const cleanText = text ? text.trim().substring(0, 512) : ''
CleanText(t) == IF t = <<>> THEN <<>> ELSE Substring0(Trim(t), MaxCleanLen)

\* slip: a failed item is dropped instead of replaced by a zero vector
PushZeroDropped(embs) == embs

\* embeddings.push(new Array(384).fill(0))
PushZero(embs) == Append(embs, ZeroVector)

\* the texts a batch is made of: empty, blank, and two texts with a letter
TextItems == { <<>>, <<" ">>, <<" ", "a">>, <<"b", " ">> }

\* the characters of the step names the callers pass to progressCallback
StepChars ==
  [info |-> <<"i", "n", "f", "o">>, processing |-> <<"p", "r", "o", "c", "e", "s", "s", "i", "n", "g">>, success |-> <<"s", "u", "c", "c", "e", "s", "s">>,
   error |-> <<"e", "r", "r", "o", "r">>]

\* uploadRoutes.js 61-71: an update is written to the connection of the
\* session if there is one; a write that throws is caught.  `via` tells the
\* caller: 0 is the route, k the progressCallback of file k
sendProgressUpdate(via, type, emoji, message) ==
  IF conn = "open"
    THEN <<[via |-> via, type |-> type, emoji |-> emoji, message |-> message]>>
    ELSE <<>>

\* uploadRoutes.js 110-112: progressCallback(step, current, total) calls
\* sendProgressUpdate(app, sessionId, ...step, current, total, extraInfo); the
\* spread of the string `step` hands on its characters one by one, and
\* sendProgressUpdate takes the first three of them ("*" is the emoji passed)
progressCallback(via, step, total) ==
  LET spread(args) == sendProgressUpdate(via, args[1], args[2], args[3])
  IN  spread(StepChars[step] \o <<"*", total, "">>)

\* what the progressCallback calls caller c makes in a step put on the stream
Notify(c) ==
  sse' = IF rpc = "off" \/ conn # "open" THEN sse
         ELSE sse \o [j \in 1..(Len(events'[c]) - Len(events[c])) |->
                        LET passed(ev) == progressCallback(c, ev.type, ev.msg)[1]
                        IN  passed(events'[c][Len(events[c]) + j])]

\* progressCallback?.(type, emoji, message)
Emit(c, type, msg) ==
  IF hasCb[c] THEN [events EXCEPT ![c] = Append(@, [type |-> type, msg |-> msg])]
  ELSE events

Emit2(c, t1, m1, t2, m2) ==
  IF hasCb[c]
    THEN [events EXCEPT ![c] = @ \o << [type |-> t1, msg |-> m1], [type |-> t2, msg |-> m2] >>]
    ELSE events

\* no embedTexts call is made (the other pipelines are being exercised)
EmbedOff ==
  /\ embedder = 0 /\ loads = 0
  /\ epc = [c \in Callers |-> "off"]
  /\ texts = [c \in Callers |-> <<>>]
  /\ hasCb = [c \in Callers |-> FALSE]
  /\ loadId = [c \in Callers |-> 0]
  /\ model = [c \in Callers |-> 0]
  /\ ei = [c \in Callers |-> 0]
  /\ embeddings = [c \in Callers |-> <<>>]
  /\ failed = [c \in Callers |-> {}]
  /\ ret = [c \in Callers |-> <<>>]
  /\ events = [c \in Callers |-> <<>>]

EmbedInitCommon ==
  /\ embedder = 0 /\ loads = 0
  /\ loadId = [c \in Callers |-> 0]
  /\ model = [c \in Callers |-> 0]
  /\ ei = [c \in Callers |-> 0]
  /\ embeddings = [c \in Callers |-> <<>>]
  /\ failed = [c \in Callers |-> {}]
  /\ ret = [c \in Callers |-> <<>>]
  /\ events = [c \in Callers |-> <<>>]

\* lines 54-58 and 34-40: the call runs up to its first await
EmbedCall(c) ==
  /\ epc[c] = "idle"
  /\ IF texts[c] = <<>>
       THEN \* if (!texts.length) return [];
            /\ epc' = [epc EXCEPT ![c] = "done"]
            /\ ret' = [ret EXCEPT ![c] = <<>>]
            /\ UNCHANGED <<loads, loadId, model, events>>
       ELSE IF embedder = 0
         THEN \* if (!embedder) { ... embedder = await pipeline(...)
              /\ loads' = loads + 1
              /\ loadId' = [loadId EXCEPT ![c] = loads + 1]
              /\ events' = Emit(c, "processing", <<"Loading sentence transformer model...">>)
              /\ epc' = [epc EXCEPT ![c] = "loading"]
              /\ UNCHANGED <<model, ret>>
         ELSE \* return embedder;
              /\ model' = [model EXCEPT ![c] = embedder]
              /\ epc' = [epc EXCEPT ![c] = "gotModel"]
              /\ UNCHANGED <<loads, loadId, ret, events>>
  /\ UNCHANGED <<embedder, texts, hasCb, ei, embeddings, failed>>
  /\ Notify(c)
  /\ UNCHANGED <<chunkVars, queryVars, ingestVars>>

\* lines 40-44, 51: pipeline(...) resolves; embedder is assigned and returned
LoadResolve(c) ==
  /\ epc[c] = "loading"
  /\ embedder' = loadId[c]
  /\ model' = [model EXCEPT ![c] = loadId[c]]
  /\ events' = Emit(c, "success", <<"Sentence transformer model loaded successfully">>)
  /\ epc' = [epc EXCEPT ![c] = "gotModel"]
  /\ UNCHANGED <<loads, texts, hasCb, loadId, ei, embeddings, failed, ret>>
  /\ Notify(c)
  /\ UNCHANGED <<chunkVars, queryVars, ingestVars>>

\* lines 45-49 and 107-111: pipeline(...) rejects; both catch blocks rethrow
LoadReject(c) ==
  /\ epc[c] = "loading"
  /\ events' = Emit2(c, "error", <<"Failed to load embedding model">>,
                        "error", <<"Embedding generation failed">>)
  /\ epc' = [epc EXCEPT ![c] = "threw"]
  /\ UNCHANGED <<embedder, loads, texts, hasCb, loadId, model, ei, embeddings, failed, ret>>
  /\ Notify(c)
  /\ UNCHANGED <<chunkVars, queryVars, ingestVars>>

\* lines 58-62: the await of initializeEmbedder resumes
EmbedBegin(c) ==
  /\ epc[c] = "gotModel"
  /\ embeddings' = [embeddings EXCEPT ![c] = <<>>]
  /\ ei' = [ei EXCEPT ![c] = 0]
  /\ events' = Emit(c, "processing", <<"Processing texts for embedding", Len(texts[c])>>)
  /\ epc' = [epc EXCEPT ![c] = "loop"]
  /\ UNCHANGED <<embedder, loads, texts, hasCb, loadId, model, failed, ret>>
  /\ Notify(c)
  /\ UNCHANGED <<chunkVars, queryVars, ingestVars>>

\* lines 65-74: an item whose cleaned text is empty
EmbedIterEmpty(c) ==
  /\ epc[c] = "loop"
  /\ ei[c] < Len(texts[c])
  /\ CleanText(texts[c][ei[c] + 1]) = <<>>
  /\ embeddings' = [embeddings EXCEPT ![c] = PushZero(@)]
  /\ ei' = [ei EXCEPT ![c] = @ + 1]
  /\ UNCHANGED <<embedder, loads, epc, texts, hasCb, loadId, model, failed, ret, events>>
  /\ Notify(c)
  /\ UNCHANGED <<chunkVars, queryVars, ingestVars>>

\* lines 76-93: model(cleanText) resolves
EmbedIterOk(c) ==
  /\ epc[c] = "loop"
  /\ ei[c] < Len(texts[c])
  /\ LET cleanText == CleanText(texts[c][ei[c] + 1])
     IN  /\ cleanText # <<>>
         /\ embeddings' = [embeddings EXCEPT ![c] = Append(@, ModelOutput(cleanText))]
  /\ events' = Emit(c, "success", <<"Generated embedding", ei[c] + 1, Len(texts[c])>>)
  /\ ei' = [ei EXCEPT ![c] = @ + 1]
  /\ UNCHANGED <<embedder, loads, epc, texts, hasCb, loadId, model, failed, ret>>
  /\ Notify(c)
  /\ UNCHANGED <<chunkVars, queryVars, ingestVars>>

\* lines 76-81 and 95-100: model(cleanText) rejects
EmbedIterFail(c) ==
  /\ epc[c] = "loop"
  /\ ei[c] < Len(texts[c])
  /\ CleanText(texts[c][ei[c] + 1]) # <<>>
  /\ events' = Emit(c, "error", <<"Error processing text", ei[c] + 1>>)
  /\ embeddings' = [embeddings EXCEPT ![c] = PushZero(@)]
  /\ failed' = [failed EXCEPT ![c] = @ \cup {ei[c]}]
  /\ ei' = [ei EXCEPT ![c] = @ + 1]
  /\ UNCHANGED <<embedder, loads, epc, texts, hasCb, loadId, model, ret>>
  /\ Notify(c)
  /\ UNCHANGED <<chunkVars, queryVars, ingestVars>>

\* lines 65, 103-105: the loop is over, return embeddings
EmbedReturn(c) ==
  /\ epc[c] = "loop"
  /\ ~(ei[c] < Len(texts[c]))
  /\ events' = Emit(c, "success", <<"Generated embeddings", Len(embeddings[c])>>)
  /\ ret' = [ret EXCEPT ![c] = embeddings[c]]
  /\ epc' = [epc EXCEPT ![c] = "done"]
  /\ UNCHANGED <<embedder, loads, texts, hasCb, loadId, model, ei, embeddings, failed>>
  /\ Notify(c)
  /\ UNCHANGED <<chunkVars, queryVars, ingestVars>>

NextEmbed ==
  \E c \in Callers :
     \/ EmbedCall(c)
     \/ LoadResolve(c)
     \/ LoadReject(c)
     \/ EmbedBegin(c)
     \/ EmbedIterEmpty(c)
     \/ EmbedIterOk(c)
     \/ EmbedIterFail(c)
     \/ EmbedReturn(c)

(***************************************************************************)
(* String helpers of the query side                                        *)
(***************************************************************************)
UpperChars == <<"A", "B", "C", "D", "E", "F", "G", "H", "I", "J", "K", "L", "M", "N", "O", "P", "Q", "R", "S", "T", "U", "V", "W", "X", "Y", "Z">>
LowerChars == <<"a", "b", "c", "d", "e", "f", "g", "h", "i", "j", "k", "l", "m", "n", "o", "p", "q", "r", "s", "t", "u", "v", "w", "x", "y", "z">>

\* String.prototype.toLowerCase()
LowerChar(c) ==
  IF \E k \in 1..Len(UpperChars) : UpperChars[k] = c
    THEN LowerChars[CHOOSE k \in 1..Len(UpperChars) : UpperChars[k] = c]
    ELSE c

ToLowerCase(s) == [p \in 1..Len(s) |-> LowerChar(s[p])]

\* String.prototype.includes(kw)
Includes(s, kw) ==
  \E p \in 0..(Len(s) - Len(kw)) : SubSeq(s, p + 1, p + Len(kw)) = kw

(***************************************************************************)
(* vectorSearch                                                            *)
(***************************************************************************)
\* Scores are hundredths: the threshold 0.4 is 40
MinScore == 40

SrcA == <<"A", ".", "p", "d", "f">>
SrcB == <<"b", ".", "p", "d", "f">>
SrcC == <<"c", ".", "p", "n", "g">>

\* The chunks in the store (the fields vectorSearch projects)
Corpus ==
  { [source |-> SrcA, page |-> 0, type |-> "text",      text |-> <<"I", "s", "s", "u", "e", "d", " ", "S", "a", "l", "e", "s">>],
    [source |-> SrcA, page |-> 0, type |-> "text",      text |-> <<"P", "r", "o", "f", "i", "t">>],
    [source |-> SrcA, page |-> 1, type |-> "image_ocr", text |-> <<"A", "W", "A", "R", "D", "E", "D">>],
    [source |-> SrcB, page |-> 0, type |-> "text",      text |-> <<"s", "k", "i", "l", "l", "s", " ", "g", "r", "a", "p", "h">>],
    [source |-> SrcC, page |-> 0, type |-> "chart_ocr", text |-> <<"A", "x", "i", "s">>],
    [source |-> SrcC, page |-> 0, type |-> "image_ocr", text |-> <<"h", "e", "l", "l", "o">>] }

ScoreVals == {30, 40, 45, 50}

SourceFilters == { <<>>, <<"a">> }

WithScore(ch, sc) ==
  [source |-> ch.source, page |-> ch.page, type |-> ch.type, text |-> ch.text, score |-> sc]

\* the chunks the collection holds: those of Corpus when vectorSearch is
\* exercised on its own, else the projection of the documents written so far
Collection ==
  IF rpc = "off" THEN Corpus
  ELSE { [source |-> store[j].source, page |-> store[j].page, type |-> store[j].type,
          text |-> store[j].text] : j \in 1..Len(store) }

\* What the $vectorSearch stage can hand on: up to `limit` distinct chunks of
\* the store, each with its similarity score, in descending score order
RECURSIVE ScoredLists(_)
ScoredLists(n) ==
  IF n = 0 THEN { <<>> }
  ELSE LET shorter == ScoredLists(n - 1)
       IN  shorter \cup
           { Append(l, WithScore(ch, sc)) :
               l \in { t \in shorter : Len(t) = n - 1 }, ch \in Collection, sc \in ScoreVals }

IsStoreAnswer(l, limit) ==
  /\ Len(l) <= limit
  /\ \A a, b \in 1..Len(l) :
        a < b => /\ l[a].score >= l[b].score
                 /\ [l[a] EXCEPT !.score = 0] # [l[b] EXCEPT !.score = 0]

\* slip: the match is case-sensitive
MatchesSourceCaseSensitive(ctx, pattern) == Includes(ctx.source, pattern)

\* $match: { source: { $regex: sourceFilter, $options: 'i' } }
MatchesSource(ctx, pattern) == Includes(ToLowerCase(ctx.source), ToLowerCase(pattern))

\* slip: the threshold lets 0.4 itself through
AboveThresholdInclusive(score) == score >= MinScore

\* result.score > 0.4
AboveThreshold(score) == score > MinScore

\* lines 6-40
VectorSearch ==
  /\ qpc = "search"
  /\ LET numCandidates == Max(100, topK * 10)
         limit         == topK * 3
     IN  /\ request' = [numCandidates |-> numCandidates, limit |-> limit]
         /\ \E found \in ScoredLists(MaxHits) :
               /\ IsStoreAnswer(found, limit)
               /\ LET Matching(r) == MatchesSource(r, sourceFilter)
                      Relevant(r) == AboveThreshold(r.score)
                      results     == IF sourceFilter # <<>> THEN SelectSeq(found, Matching)
                                                          ELSE found
                  IN  /\ nearest' = found
                      /\ fetched' = results
                      /\ hits' = Slice(SelectSeq(results, Relevant), 0, topK)
  /\ qpc' = "answer"
  /\ UNCHANGED <<topK, sourceFilter, contextsBySource, primarySource, primaryContexts,
                 documentType, question, answer, handler, response>>
  /\ UNCHANGED <<chunkVars, embedVars, ingestVars, sse>>

(***************************************************************************)
(* groupContextsBySource                                                   *)
(***************************************************************************)
\* slip: a context replaces the list of its source instead of joining it
PushToGroupOverwrites(list, context) == <<context>>

\* grouped[source].push(context)
PushToGroup(list, context) == Append(list, context)

\* lines 114-121: `grouped` as its keys in insertion order and their lists
RECURSIVE GroupFold(_, _)
GroupFold(contexts, grouped) ==
  IF contexts = <<>> THEN grouped
  ELSE LET context == Head(contexts)
           source  == context.source
           known   == \E k \in 1..Len(grouped) : grouped[k].source = source
           started == IF known THEN grouped
                      ELSE Append(grouped, [source |-> source, contexts |-> <<>>])
           pushed  == [k \in 1..Len(started) |->
                         IF started[k].source = source
                           THEN [started[k] EXCEPT !.contexts = PushToGroup(@, context)]
                           ELSE started[k]]
       IN  GroupFold(Tail(contexts), pushed)

\* grouped[a].reduce((sum, ctx) => sum + ctx.score, 0)
RECURSIVE SumScores(_)
SumScores(list) == IF list = <<>> THEN 0 ELSE Head(list).score + SumScores(Tail(list))

\* slip: the comparator sorts ascending
CompareAscending(scoreA, scoreB) == scoreA - scoreB

\* return scoreB - scoreA
Compare(scoreA, scoreB) == scoreB - scoreA

\* Array.prototype.sort(compare), stable: g goes behind every entry that does
\* not compare greater than it
RECURSIVE SortInsert(_, _)
SortInsert(acc, g) ==
  IF acc = <<>> THEN <<g>>
  ELSE IF Compare(SumScores(Head(acc).contexts), SumScores(g.contexts)) <= 0
         THEN <<Head(acc)>> \o SortInsert(Tail(acc), g)
         ELSE <<g>> \o acc

RECURSIVE SortGroups(_, _)
SortGroups(rest, acc) ==
  IF rest = <<>> THEN acc ELSE SortGroups(Tail(rest), SortInsert(acc, Head(rest)))

\* lines 113-136
groupContextsBySource(contexts) == SortGroups(GroupFold(contexts, <<>>), <<>>)

(***************************************************************************)
(* detectDocumentType                                                      *)
(***************************************************************************)
CertificateKeywords ==
  { <<"c", "e", "r", "t", "i", "f", "i", "c", "a", "t", "e">>,
    <<"a", "w", "a", "r", "d", "e", "d">>,
    <<"p", "r", "e", "s", "e", "n", "t", "e", "d">>,
    <<"i", "s", "s", "u", "e", "d">> }
FinancialKeywords ==
  { <<"r", "e", "v", "e", "n", "u", "e">>,
    <<"p", "r", "o", "f", "i", "t">>,
    <<"s", "a", "l", "e", "s">>,
    <<"f", "i", "n", "a", "n", "c", "i", "a", "l">> }
ResumeKeywords ==
  { <<"s", "k", "i", "l", "l", "s">>,
    <<"p", "r", "o", "j", "e", "c", "t", "s">>,
    <<"e", "d", "u", "c", "a", "t", "i", "o", "n">>,
    <<"e", "x", "p", "e", "r", "i", "e", "n", "c", "e">> }
ChartKeywords ==
  { <<"c", "h", "a", "r", "t">>,
    <<"g", "r", "a", "p", "h">>,
    <<"a", "x", "i", "s">>,
    <<"l", "e", "g", "e", "n", "d">> }

IncludesAny(allText, kws) == \E kw \in kws : Includes(allText, kw)

\* slip: the financial keywords are tested before the certificate keywords
DocTypeFinancialFirst(allText) ==
  IF IncludesAny(allText, FinancialKeywords) THEN "financial"
  ELSE IF IncludesAny(allText, CertificateKeywords) THEN "certificate"
  ELSE IF IncludesAny(allText, ResumeKeywords) THEN "resume"
  ELSE IF IncludesAny(allText, ChartKeywords) THEN "chart"
  ELSE "general"

\* lines 297-313
DocTypeOf(allText) ==
  IF IncludesAny(allText, CertificateKeywords) THEN "certificate"
  ELSE IF IncludesAny(allText, FinancialKeywords) THEN "financial"
  ELSE IF IncludesAny(allText, ResumeKeywords) THEN "resume"
  ELSE IF IncludesAny(allText, ChartKeywords) THEN "chart"
  ELSE "general"

\* contexts.map(c => c.text).join(' ')
JoinedText(contexts) == JoinSp([k \in 1..Len(contexts) |-> contexts[k].text])

\* lines 294-314
detectDocumentType(contexts) == DocTypeOf(ToLowerCase(JoinedText(contexts)))

(***************************************************************************)
(* Characters and regular expressions of the answer synthesis              *)
(* (src/services/query.js).  A regular expression is a sequence of nodes;  *)
(* Match tries them the way the backtracking matcher of the JavaScript     *)
(* engine does: alternatives left to right, greedy repetition longest      *)
(* first, lazy repetition shortest first.                                  *)
(***************************************************************************)
UpperChar(c) ==
  IF \E k \in 1..Len(LowerChars) : LowerChars[k] = c
    THEN UpperChars[CHOOSE k \in 1..Len(LowerChars) : LowerChars[k] = c]
    ELSE c

UpperSet == { UpperChars[k] : k \in 1..Len(UpperChars) }
LowerSet == { LowerChars[k] : k \in 1..Len(LowerChars) }
Letters  == UpperSet \cup LowerSet
Digits   == {"0", "1", "2", "3", "4", "5", "6", "7", "8", "9"}
\* \w
WordChars == Letters \cup Digits \cup {"_"}
\* every character a modelled text is made of; the only whitespace is " "
Alphabet == WordChars \cup {" ", ".", ",", "!", "?", "@", "(", ")", "*", "+", "-", "/", ":", "#", "&", ";"}

\* a character of the set cs
Ch(cs) == [t |-> "ch", cs |-> cs, sub |-> <<>>]
\* (?:a|b|...): alts is the sequence of the alternatives
Alt(alts) == [t |-> "alt", cs |-> {}, sub |-> alts]
\* (?:body)*
Star(body) == [t |-> "star", cs |-> {}, sub |-> <<body>>]
\* [cs]* and [cs]*?, a repetition of one character class
Run(cs)     == [t |-> "run", cs |-> cs, sub |-> <<>>]
LazyRun(cs) == [t |-> "lazyrun", cs |-> cs, sub |-> <<>>]
\* (?:body)?
Opt(body) == [t |-> "opt", cs |-> {}, sub |-> <<body>>]
\* (?=body)
Ahead(body) == [t |-> "ahead", cs |-> {}, sub |-> <<body>>]
\* \b
WordBoundary == [t |-> "wb", cs |-> {}, sub |-> <<>>]
\* the parentheses of capture group 1
GroupOpen  == [t |-> "open", cs |-> {}, sub |-> <<>>]
GroupClose == [t |-> "close", cs |-> {}, sub |-> <<>>]

\* [cs]+
Plus(cs) == <<Ch(cs), Run(cs)>>
\* a literal under the i flag
LitI(str) == [k \in 1..Len(str) |-> Ch({LowerChar(str[k]), UpperChar(str[k])})]
\* \s+
Spaces1 == Plus({" "})
\* [A-Z][a-z]+ under the i flag, and without it
WordI  == <<Ch(Letters)>> \o Plus(Letters)
WordCS == <<Ch(UpperSet)>> \o Plus(LowerSet)
\* [A-Z][a-z]+(?:\s+[A-Z][a-z]+)* under the i flag
WordsI == WordI \o <<Star(Spaces1 \o WordI)>>

NoMatch == [ok |-> FALSE, end |-> 0, gs |-> 0, ge |-> 0]

\* the position after the longest run of characters of cs that starts at p
RunEnd(s, p, cs) ==
  CHOOSE q \in p..(Len(s) + 1) :
    /\ q = Len(s) + 1 \/ s[q] \notin cs
    /\ \A r \in p..(q - 1) : s[r] \in cs

\* The match of the node sequence against s from position p on (end is the
\* position after the last matched character; gs, ge delimit group 1).
RECURSIVE Match(_, _, _, _, _)
Match(nodes, s, p, gs, ge) ==
  IF nodes = <<>>
    THEN [ok |-> TRUE, end |-> p, gs |-> gs, ge |-> ge]
    ELSE LET n    == Head(nodes)
             rest == Tail(nodes)
             IsWordAt(q) == q >= 1 /\ q <= Len(s) /\ s[q] \in WordChars
         IN  CASE n.t = "ch" ->
                    IF p <= Len(s) /\ s[p] \in n.cs
                      THEN Match(rest, s, p + 1, gs, ge)
                      ELSE NoMatch
               [] n.t = "alt" ->
                    IF n.sub = <<>>
                      THEN NoMatch
                      ELSE LET r == Match(Head(n.sub) \o rest, s, p, gs, ge)
                           IN  IF r.ok THEN r
                               ELSE Match(<<Alt(Tail(n.sub))>> \o rest, s, p, gs, ge)
               [] n.t = "star" ->
                    LET r == Match(n.sub[1] \o nodes, s, p, gs, ge)
                    IN  IF r.ok THEN r ELSE Match(rest, s, p, gs, ge)
               [] n.t = "run" ->
                    \* the longest repetition after which the rest matches
                    LET longest(good) ==
                          IF good = {} THEN NoMatch
                          ELSE (CHOOSE x \in good : \A y \in good : y.at <= x.at).m
                    IN  longest({ x \in { [at |-> q, m |-> Match(rest, s, q, gs, ge)] :
                                            q \in p..RunEnd(s, p, n.cs) } : x.m.ok })
               [] n.t = "lazyrun" ->
                    \* the shortest repetition after which the rest matches
                    LET shortest(good) ==
                          IF good = {} THEN NoMatch
                          ELSE (CHOOSE x \in good : \A y \in good : x.at <= y.at).m
                    IN  shortest({ x \in { [at |-> q, m |-> Match(rest, s, q, gs, ge)] :
                                             q \in p..RunEnd(s, p, n.cs) } : x.m.ok })
               [] n.t = "opt" ->
                    LET r == Match(n.sub[1] \o rest, s, p, gs, ge)
                    IN  IF r.ok THEN r ELSE Match(rest, s, p, gs, ge)
               [] n.t = "ahead" ->
                    IF Match(n.sub[1], s, p, gs, ge).ok
                      THEN Match(rest, s, p, gs, ge)
                      ELSE NoMatch
               [] n.t = "wb" ->
                    IF IsWordAt(p - 1) # IsWordAt(p)
                      THEN Match(rest, s, p, gs, ge)
                      ELSE NoMatch
               [] n.t = "open" -> Match(rest, s, p, p, ge)
               [] n.t = "close" -> Match(rest, s, p, gs, p)

\* the successive matches of a /g expression from position p on (starts: the
\* positions at which it matches): the leftmost one, then the leftmost one
\* after its end, and so on
RECURSIVE MatchAllFrom(_, _, _, _)
MatchAllFrom(re, s, p, starts) ==
  LET found(q, r) == <<[whole |-> SubSeq(s, q, r.end - 1),
                         group |-> SubSeq(s, r.gs, r.ge - 1)]>>
                       \o MatchAllFrom(re, s, r.end, starts)
      matchAt(q)  == found(q, Match(re, s, q, 0, 0))
      leftmost(ahead) == IF ahead = {} THEN <<>>
                         ELSE matchAt(CHOOSE a \in ahead : \A b \in ahead : a <= b)
  IN  leftmost({ q \in starts : q >= p })

\* [...text.matchAll(re)]: every match with its group 1
MatchAll(re, s) ==
  LET proper(r, q) == r.ok /\ r.end > q
  IN  MatchAllFrom(re, s, 1, { q \in 1..Len(s) : proper(Match(re, s, q, 0, 0), q) })

\* text.match(re) with the g flag: the matched substrings only, no groups
\* (the empty sequence stands for null)
MatchG(re, s) ==
  LET wholes(all) == [k \in 1..Len(all) |-> all[k].whole] IN wholes(MatchAll(re, s))

\* match[1] || match[0] on the array text.match(re) returned
SecondOrFirst(match) ==
  IF Len(match) >= 2 /\ match[2] # <<>> THEN match[2] ELSE match[1]

(***************************************************************************)
(* Text helpers of the answer synthesis                                    *)
(***************************************************************************)
\* .replace(/\s+/g, ' ') on s[lo..hi]: of a run of whitespace the first
\* character stays.  Computed by halving the range.
RECURSIVE CollapseSpaces(_, _, _)
CollapseSpaces(s, lo, hi) ==
  IF lo > hi THEN <<>>
  ELSE IF lo = hi
    THEN (IF IsSpace(s[lo]) /\ lo > 1 /\ IsSpace(s[lo - 1]) THEN <<>> ELSE <<s[lo]>>)
  ELSE LET mid == (lo + hi) \div 2
       IN  CollapseSpaces(s, lo, mid) \o CollapseSpaces(s, mid + 1, hi)

\* .replace(/([a-z])([A-Z])/g, '$1 $2') on s[lo..hi]
RECURSIVE SplitCamel(_, _, _)
SplitCamel(s, lo, hi) ==
  IF lo > hi THEN <<>>
  ELSE IF lo = hi
    THEN (IF lo < Len(s) /\ s[lo] \in LowerSet /\ s[lo + 1] \in UpperSet
            THEN <<s[lo], " ">> ELSE <<s[lo]>>)
  ELSE LET mid == (lo + hi) \div 2
       IN  SplitCamel(s, lo, mid) \o SplitCamel(s, mid + 1, hi)

\* lines 285-291.  /[^\w\s.,!?@()-:\/]/ leaves alone \w, \s, . , ! ? @ ( /
\* and the range from ")" to ":" (which holds ) * + , - . / 0-9 :)
cleanAndFormatText(t) ==
  LET CleanKeep == WordChars \cup {" ", ".", ",", "!", "?", "@", "(", ")", "*", "+", "-", "/", ":"}
      camel(single) == SplitCamel(single, 1, Len(single))
      collapsed(kept) == camel(CollapseSpaces(kept, 1, Len(kept)))
  IN  Trim(collapsed([p \in 1..Len(t) |-> IF t[p] \in CleanKeep THEN t[p] ELSE " "]))

SentenceEnds == {".", "!", "?"}

\* String.prototype.split(/[.!?]+/) on s[lo..hi]: the pieces between the
\* maximal runs of . ! ? (an empty piece before a leading and after a
\* trailing run).  Computed by halving the range.
RECURSIVE SplitSentenceRange(_, _, _)
SplitSentenceRange(s, lo, hi) ==
  IF lo > hi THEN << <<>> >>
  ELSE IF lo = hi THEN (IF s[lo] \in SentenceEnds THEN << <<>>, <<>> >> ELSE << <<s[lo]>> >>)
  ELSE LET mid == (lo + hi) \div 2
           merged(L, R) ==
             IF s[mid] \in SentenceEnds /\ s[mid + 1] \in SentenceEnds
               THEN SubSeq(L, 1, Len(L) - 1) \o Tail(R)
               ELSE SubSeq(L, 1, Len(L) - 1) \o << L[Len(L)] \o Head(R) >> \o Tail(R)
       IN  merged(SplitSentenceRange(s, lo, mid), SplitSentenceRange(s, mid + 1, hi))

SplitSentences(s) == SplitSentenceRange(s, 1, Len(s))

\* Array.prototype.join(sep)
RECURSIVE JoinWith(_, _)
JoinWith(arr, sep) ==
  IF arr = <<>> THEN <<>>
  ELSE IF Len(arr) = 1 THEN arr[1]
  ELSE arr[1] \o sep \o JoinWith(Tail(arr), sep)

\* insertion into a Set, then Array.from: first occurrences, in order
RECURSIVE Unique(_)
Unique(arr) ==
  IF arr = <<>> THEN <<>>
  ELSE LET added(init, last) ==
             IF \E k \in 1..Len(init) : init[k] = last THEN init ELSE Append(init, last)
       IN  added(Unique(SubSeq(arr, 1, Len(arr) - 1)), arr[Len(arr)])

\* the bullet character U+2022 and the line feed, as one-character strings
Bullet == ">"
LF == "\n"

\* items.map(x => `• ${x}`).join('\n')
BulletLines(items) ==
  JoinWith([k \in 1..Len(items) |-> <<Bullet, " ">> \o items[k]], <<LF>>)

\* Array.prototype.flatMap-like concatenation of a sequence of sequences
RECURSIVE Flatten(_)
Flatten(lists) == IF lists = <<>> THEN <<>> ELSE Head(lists) \o Flatten(Tail(lists))


(***************************************************************************)
(* Extraction helpers (lines 172-282 and 316-351)                          *)
(***************************************************************************)
Unknown == <<"U", "n", "k", "n", "o", "w", "n">>

\* lines 172-247.  text.match(pattern) with the g flag returns the matched
\* substrings, so match[1] is the second match and not the capture group;
\* hasInfo is set where a pattern matched, never by the type.
extractCertificateInfo(t) ==
  LET \* /(?:awarded to|presented to|certificate.*?to)\s+([A-Z][a-z]+(?:\s+[A-Z][a-z]+)*)/gi
      name0 == MatchG(
        <<Alt(<<LitI(<<"a", "w", "a", "r", "d", "e", "d", " ", "t", "o">>), LitI(<<"p", "r", "e", "s", "e", "n", "t", "e", "d", " ", "t", "o">>),
                LitI(<<"c", "e", "r", "t", "i", "f", "i", "c", "a", "t", "e">>) \o <<LazyRun(Alphabet)>> \o LitI(<<"t", "o">>)>>)>>
          \o Spaces1 \o <<GroupOpen>> \o WordsI \o <<GroupClose>>, t)
      \* /([A-Z][a-z]+\s+[A-Z][a-z]+)(?=\s+for\s+successfully)/gi
      name1 == MatchG(
        <<GroupOpen>> \o WordI \o Spaces1 \o WordI
          \o <<GroupClose, Ahead(Spaces1 \o LitI(<<"f", "o", "r">>) \o Spaces1 \o LitI(<<"s", "u", "c", "c", "e", "s", "s", "f", "u", "l", "l", "y">>))>>, t)
      \* /\b(Infosys|Google|Microsoft|Amazon|IBM|Oracle|Coursera|edX)\b/gi
      issuer0 == MatchG(
        <<WordBoundary, GroupOpen,
          Alt(<<LitI(<<"I", "n", "f", "o", "s", "y", "s">>), LitI(<<"G", "o", "o", "g", "l", "e">>), LitI(<<"M", "i", "c", "r", "o", "s", "o", "f", "t">>), LitI(<<"A", "m", "a", "z", "o", "n">>),
                LitI(<<"I", "B", "M">>), LitI(<<"O", "r", "a", "c", "l", "e">>), LitI(<<"C", "o", "u", "r", "s", "e", "r", "a">>), LitI(<<"e", "d", "X">>)>>),
          GroupClose, WordBoundary>>, t)
      \* /\b([A-Z][a-z]+\s+(?:University|Institute|College|Academy))\b/gi
      issuer1 == MatchG(
        <<WordBoundary, GroupOpen>> \o WordI \o Spaces1
          \o <<Alt(<<LitI(<<"U", "n", "i", "v", "e", "r", "s", "i", "t", "y">>), LitI(<<"I", "n", "s", "t", "i", "t", "u", "t", "e">>), LitI(<<"C", "o", "l", "l", "e", "g", "e">>), LitI(<<"A", "c", "a", "d", "e", "m", "y">>)>>),
               GroupClose, WordBoundary>>, t)
      \* /\b([A-Z][a-z]+\s+Professional\s+University)\b/gi
      issuer2 == MatchG(
        <<WordBoundary, GroupOpen>> \o WordI \o Spaces1 \o LitI(<<"P", "r", "o", "f", "e", "s", "s", "i", "o", "n", "a", "l">>)
          \o Spaces1 \o LitI(<<"U", "n", "i", "v", "e", "r", "s", "i", "t", "y">>) \o <<GroupClose, WordBoundary>>, t)
      \* /(?:completing the course|course in|program in)\s+([^.!?]+)/gi
      course0 == MatchG(
        <<Alt(<<LitI(<<"c", "o", "m", "p", "l", "e", "t", "i", "n", "g", " ", "t", "h", "e", " ", "c", "o", "u", "r", "s", "e">>), LitI(<<"c", "o", "u", "r", "s", "e", " ", "i", "n">>), LitI(<<"p", "r", "o", "g", "r", "a", "m", " ", "i", "n">>)>>)>>
          \o Spaces1 \o <<GroupOpen>> \o Plus(Alphabet \ SentenceEnds) \o <<GroupClose>>, t)
      \* /(AI-first Software Engineering|Software Engineering|Data Science|Machine Learning|Cloud Computing)/gi
      course1 == MatchG(
        <<GroupOpen,
          Alt(<<LitI(<<"A", "I", "-", "f", "i", "r", "s", "t", " ", "S", "o", "f", "t", "w", "a", "r", "e", " ", "E", "n", "g", "i", "n", "e", "e", "r", "i", "n", "g">>), LitI(<<"S", "o", "f", "t", "w", "a", "r", "e", " ", "E", "n", "g", "i", "n", "e", "e", "r", "i", "n", "g">>),
                LitI(<<"D", "a", "t", "a", " ", "S", "c", "i", "e", "n", "c", "e">>), LitI(<<"M", "a", "c", "h", "i", "n", "e", " ", "L", "e", "a", "r", "n", "i", "n", "g">>), LitI(<<"C", "l", "o", "u", "d", " ", "C", "o", "m", "p", "u", "t", "i", "n", "g">>)>>),
          GroupClose>>, t)
      \* (?:on|issued on:|date:)\s*
      datePrefix ==
        <<Alt(<<LitI(<<"o", "n">>), LitI(<<"i", "s", "s", "u", "e", "d", " ", "o", "n", ":">>), LitI(<<"d", "a", "t", "e", ":">>)>>), Run({" "})>>
      \* /(?:on|issued on:|date:)\s*([A-Z][a-z]+\s+\d{1,2},?\s+\d{4})/gi
      dateMatch == MatchG(
        datePrefix \o <<GroupOpen>> \o WordI \o Spaces1
          \o <<Ch(Digits), Opt(<<Ch(Digits)>>), Opt(<<Ch({","})>>)>> \o Spaces1
          \o <<Ch(Digits), Ch(Digits), Ch(Digits), Ch(Digits), GroupClose>>, t)
      \* dateMatch[0].replace(/^(on|issued on:|date:)\s*/i, '')
      rest(d, r)  == IF r.ok THEN SubSeq(d, r.end, Len(d)) ELSE d
      stripped(d) == rest(d, Match(datePrefix, d, 1, 0, 0))
      \* lines 188-195, 204-211, 219-226, 229-233 and 236-244, over the results
      \* of the eight text.match calls
      info(nameA, nameB, issuerA, issuerB, issuerC, courseA, courseB, dates, low) ==
        LET course == IF courseA # <<>> THEN SecondOrFirst(courseA)
                      ELSE IF courseB # <<>> THEN SecondOrFirst(courseB) ELSE Unknown
        IN  [type |-> IF Includes(low, <<"s", "o", "f", "t", "w", "a", "r", "e", " ", "e", "n", "g", "i", "n", "e", "e", "r", "i", "n", "g">>) THEN <<"S", "o", "f", "t", "w", "a", "r", "e", " ", "E", "n", "g", "i", "n", "e", "e", "r", "i", "n", "g", " ", "C", "e", "r", "t", "i", "f", "i", "c", "a", "t", "e">>
                      ELSE IF Includes(low, <<"i", "n", "t", "e", "r", "n", "s", "h", "i", "p">>) THEN <<"I", "n", "t", "e", "r", "n", "s", "h", "i", "p", " ", "C", "e", "r", "t", "i", "f", "i", "c", "a", "t", "e">>
                      ELSE IF Includes(low, <<"c", "o", "u", "r", "s", "e", " ", "c", "o", "m", "p", "l", "e", "t", "i", "o", "n">>) THEN <<"C", "o", "u", "r", "s", "e", " ", "C", "o", "m", "p", "l", "e", "t", "i", "o", "n", " ", "C", "e", "r", "t", "i", "f", "i", "c", "a", "t", "e">>
                      ELSE IF course # Unknown THEN <<"P", "r", "o", "f", "e", "s", "s", "i", "o", "n", "a", "l", " ", "C", "e", "r", "t", "i", "f", "i", "c", "a", "t", "e">>
                      ELSE Unknown,
             issuer |-> IF issuerA # <<>> THEN issuerA[1]
                        ELSE IF issuerB # <<>> THEN issuerB[1]
                        ELSE IF issuerC # <<>> THEN issuerC[1] ELSE Unknown,
             recipient |-> IF nameA # <<>> THEN SecondOrFirst(nameA)
                           ELSE IF nameB # <<>> THEN SecondOrFirst(nameB) ELSE Unknown,
             course |-> course,
             date |-> IF dates # <<>> THEN stripped(dates[1]) ELSE Unknown,
             hasInfo |-> \/ nameA # <<>> \/ nameB # <<>>
                         \/ issuerA # <<>> \/ issuerB # <<>> \/ issuerC # <<>>
                         \/ courseA # <<>> \/ courseB # <<>>
                         \/ dates # <<>>]
  IN  info(name0, name1, issuer0, issuer1, issuer2, course0, course1, dateMatch, ToLowerCase(t))

\* lines 316-335
extractNames(t) ==
  LET \* /\b([A-Z][a-z]+\s+[A-Z][a-z]+(?:\s+[A-Z][a-z]+)?)\b/g
      pattern0 == <<WordBoundary, GroupOpen>> \o WordCS \o Spaces1 \o WordCS
                    \o <<Opt(Spaces1 \o WordCS), GroupClose, WordBoundary>>
      \* /(?:awarded to|presented to)\s+([A-Z][a-z]+(?:\s+[A-Z][a-z]+)*)/gi
      pattern1 == <<Alt(<<LitI(<<"a", "w", "a", "r", "d", "e", "d", " ", "t", "o">>), LitI(<<"p", "r", "e", "s", "e", "n", "t", "e", "d", " ", "t", "o">>)>>)>>
                    \o Spaces1 \o <<GroupOpen>> \o WordsI \o <<GroupClose>>
      \* match[1] || match[0]
      names(matches) == [k \in 1..Len(matches) |->
                           IF matches[k].group # <<>> THEN matches[k].group ELSE matches[k].whole]
      trimmed(kept)  == [k \in 1..Len(kept) |-> Trim(kept[k])]
      matched(cleanText) ==
        names(MatchAll(pattern0, cleanText) \o MatchAll(pattern1, cleanText))
  IN  Unique(trimmed(SelectSeq(matched(cleanAndFormatText(t)),
                               LAMBDA name : Len(name) > 3 /\ Len(name) < 50)))

\* lines 250-267
extractCourses(t) ==
  LET \* /(AI-first Software Engineering|Software Engineering|Data Science|Machine Learning|Cloud Computing)/gi
      pattern0 == <<GroupOpen,
                    Alt(<<LitI(<<"A", "I", "-", "f", "i", "r", "s", "t", " ", "S", "o", "f", "t", "w", "a", "r", "e", " ", "E", "n", "g", "i", "n", "e", "e", "r", "i", "n", "g">>), LitI(<<"S", "o", "f", "t", "w", "a", "r", "e", " ", "E", "n", "g", "i", "n", "e", "e", "r", "i", "n", "g">>),
                          LitI(<<"D", "a", "t", "a", " ", "S", "c", "i", "e", "n", "c", "e">>), LitI(<<"M", "a", "c", "h", "i", "n", "e", " ", "L", "e", "a", "r", "n", "i", "n", "g">>), LitI(<<"C", "l", "o", "u", "d", " ", "C", "o", "m", "p", "u", "t", "i", "n", "g">>)>>),
                    GroupClose>>
      \* /(?:course|training|program):\s*([^.!?\n]+)/gi
      pattern1 == <<Alt(<<LitI(<<"c", "o", "u", "r", "s", "e">>), LitI(<<"t", "r", "a", "i", "n", "i", "n", "g">>), LitI(<<"p", "r", "o", "g", "r", "a", "m">>)>>),
                    Ch({":"}), Run({" "}), GroupOpen>>
                    \o Plus(Alphabet \ SentenceEnds) \o <<GroupClose>>
      trimmed(kept) == [k \in 1..Len(kept) |-> Trim(kept[k].group)]
  IN  Unique(trimmed(SelectSeq(MatchAll(pattern0, t) \o MatchAll(pattern1, t),
                               LAMBDA m : m.group # <<>> /\ Len(Trim(m.group)) > 5)))

\* lines 269-282
extractOrganizations(t) ==
  LET \* /\b(Infosys|Google|Microsoft|Amazon|IBM|Oracle|Coursera|edX|Udemy)\b/gi
      pattern0 == <<WordBoundary, GroupOpen,
                    Alt(<<LitI(<<"I", "n", "f", "o", "s", "y", "s">>), LitI(<<"G", "o", "o", "g", "l", "e">>), LitI(<<"M", "i", "c", "r", "o", "s", "o", "f", "t">>), LitI(<<"A", "m", "a", "z", "o", "n">>),
                          LitI(<<"I", "B", "M">>), LitI(<<"O", "r", "a", "c", "l", "e">>), LitI(<<"C", "o", "u", "r", "s", "e", "r", "a">>), LitI(<<"e", "d", "X">>),
                          LitI(<<"U", "d", "e", "m", "y">>)>>),
                    GroupClose, WordBoundary>>
      \* /\b([A-Z][a-z]+\s+(?:University|Institute|College|Academy|Corporation|Limited|Ltd))\b/gi
      pattern1 == <<WordBoundary, GroupOpen>> \o WordI \o Spaces1
                    \o <<Alt(<<LitI(<<"U", "n", "i", "v", "e", "r", "s", "i", "t", "y">>), LitI(<<"I", "n", "s", "t", "i", "t", "u", "t", "e">>), LitI(<<"C", "o", "l", "l", "e", "g", "e">>),
                               LitI(<<"A", "c", "a", "d", "e", "m", "y">>), LitI(<<"C", "o", "r", "p", "o", "r", "a", "t", "i", "o", "n">>), LitI(<<"L", "i", "m", "i", "t", "e", "d">>),
                               LitI(<<"L", "t", "d">>)>>),
                         GroupClose, WordBoundary>>
      wholes(matches) == [k \in 1..Len(matches) |-> matches[k].whole]
  IN  Unique(wholes(MatchAll(pattern0, t) \o MatchAll(pattern1, t)))

\* lines 337-351
extractDates(t) ==
  LET \* /\b(?:Jan|Feb|Mar|Apr|May|Jun|Jul|Aug|Sep|Oct|Nov|Dec)[a-z]*\s+\d{1,2},?\s+\d{4}/gi
      pattern0 == <<WordBoundary,
                    Alt(<<LitI(<<"J", "a", "n">>), LitI(<<"F", "e", "b">>), LitI(<<"M", "a", "r">>), LitI(<<"A", "p", "r">>), LitI(<<"M", "a", "y">>),
                          LitI(<<"J", "u", "n">>), LitI(<<"J", "u", "l">>), LitI(<<"A", "u", "g">>), LitI(<<"S", "e", "p">>), LitI(<<"O", "c", "t">>),
                          LitI(<<"N", "o", "v">>), LitI(<<"D", "e", "c">>)>>),
                    Run(Letters)>> \o Spaces1
                    \o <<Ch(Digits), Opt(<<Ch(Digits)>>), Opt(<<Ch({","})>>)>> \o Spaces1
                    \o <<Ch(Digits), Ch(Digits), Ch(Digits), Ch(Digits)>>
      \* /\b\d{1,2}\/\d{1,2}\/\d{4}\b/g
      pattern1 == <<WordBoundary, Ch(Digits), Opt(<<Ch(Digits)>>), Ch({"/"}), Ch(Digits),
                    Opt(<<Ch(Digits)>>), Ch({"/"}), Ch(Digits), Ch(Digits), Ch(Digits), Ch(Digits),
                    WordBoundary>>
      \* /\b\d{4}-\d{1,2}-\d{1,2}\b/g
      pattern2 == <<WordBoundary, Ch(Digits), Ch(Digits), Ch(Digits), Ch(Digits), Ch({"-"}),
                    Ch(Digits), Opt(<<Ch(Digits)>>), Ch({"-"}), Ch(Digits), Opt(<<Ch(Digits)>>),
                    WordBoundary>>
      wholes(matches) == [k \in 1..Len(matches) |-> matches[k].whole]
  IN  Unique(wholes(MatchAll(pattern0, t) \o MatchAll(pattern1, t) \o MatchAll(pattern2, t)))

(***************************************************************************)
(* The handlers of generateAnswer                                          *)
(***************************************************************************)
\* cleanedText.split(/[.!?]+/).filter(s => s.trim().length > n && /[a-zA-Z]/.test(s))
LongSentences(cleanedText, n) ==
  SelectSeq(SplitSentences(cleanedText),
            LAMBDA s : Len(Trim(s)) > n /\ \E p \in 1..Len(s) : s[p] \in Letters)

\* lines 161-168
CertificateFallback(cleanedText) ==
  LET details(sentences) ==
        IF Len(sentences) > 0
          THEN <<"*", "*", "C", "e", "r", "t", "i", "f", "i", "c", "a", "t", "e", " ", "D", "e", "t", "a", "i", "l", "s", ":", "*", "*">> \o <<LF>>
                 \o BulletLines([k \in 1..Len(sentences) |-> Trim(sentences[k])])
          ELSE <<"*", "*", "D", "o", "c", "u", "m", "e", "n", "t", " ", "C", "o", "n", "t", "e", "n", "t", ":", "*", "*", " ">> \o Substring0(cleanedText, 300) \o <<".", ".", ".">>
  IN  details(Slice(LongSentences(cleanedText, 15), 0, 3))

\* lines 139-169
handleCertificateQuery(questionLower, contexts) ==
  LET asksAbout == Includes(questionLower, <<"a", "b", "o", "u", "t">>) \/ Includes(questionLower, <<"w", "h", "a", "t">>)
      \* lines 149-155 (response): the five lines, those holding "Unknown" removed
      lines(certInfo) == SelectSeq(<< <<"*", "*", "C", "e", "r", "t", "i", "f", "i", "c", "a", "t", "e", " ", "T", "y", "p", "e", ":", "*", "*", " ">> \o certInfo.type,
                                      <<"*", "*", "I", "s", "s", "u", "e", "d", " ", "B", "y", ":", "*", "*", " ">> \o certInfo.issuer,
                                      <<"*", "*", "R", "e", "c", "i", "p", "i", "e", "n", "t", ":", "*", "*", " ">> \o certInfo.recipient,
                                      <<"*", "*", "C", "o", "u", "r", "s", "e", "/", "P", "r", "o", "g", "r", "a", "m", ":", "*", "*", " ">> \o certInfo.course,
                                      <<"*", "*", "D", "a", "t", "e", ":", "*", "*", " ">> \o certInfo.date >>,
                                   LAMBDA line : ~Includes(line, Unknown))
      respond(cleanedText, certInfo) ==
        IF asksAbout /\ certInfo.hasInfo
          THEN JoinWith(lines(certInfo), <<LF>>)
          ELSE CertificateFallback(cleanedText)
      withText(cleanedText) == respond(cleanedText, extractCertificateInfo(cleanedText))
  IN  withText(cleanAndFormatText(JoinedText(contexts)))

\* lines 353-368
generateSmartSummary(contexts) ==
  LET firstTwo(sentences) == Slice([j \in 1..Len(sentences) |-> Trim(sentences[j])], 0, 2)
      keyPoints == Flatten([k \in 1..Len(contexts) |->
                     firstTwo(LongSentences(cleanAndFormatText(contexts[k].text), 20))])
  IN  <<"*", "*", "D", "o", "c", "u", "m", "e", "n", "t", " ", "S", "u", "m", "m", "a", "r", "y", ":", "*", "*">> \o <<LF>> \o BulletLines(Slice(Unique(keyPoints), 0, 4))

\* slip: a later sentence with as many question words replaces the earlier one
RECURSIVE BestSentenceLastWins(_, _, _, _)
BestSentenceLastWins(sentences, questionWords, best, maxMatches) ==
  IF sentences = <<>> THEN best
  ELSE LET counted(sentenceLower) ==
             Len(SelectSeq(questionWords, LAMBDA word : Includes(sentenceLower, word)))
           better(matches) ==
             IF matches >= maxMatches
               THEN BestSentenceLastWins(Tail(sentences), questionWords, Head(sentences), matches)
               ELSE BestSentenceLastWins(Tail(sentences), questionWords, best, maxMatches)
       IN  better(counted(ToLowerCase(Head(sentences))))

\* lines 382-392: the first sentence with the most question words, if any has one
RECURSIVE BestSentence(_, _, _, _)
BestSentence(sentences, questionWords, best, maxMatches) ==
  IF sentences = <<>> THEN best
  ELSE LET counted(sentenceLower) ==
             Len(SelectSeq(questionWords, LAMBDA word : Includes(sentenceLower, word)))
           better(matches) ==
             IF matches > maxMatches
               THEN BestSentence(Tail(sentences), questionWords, Head(sentences), matches)
               ELSE BestSentence(Tail(sentences), questionWords, best, maxMatches)
       IN  better(counted(ToLowerCase(Head(sentences))))

\* the label of generateContextualAnswer left out
ContextualUnlabelled(bestSentence) == Trim(bestSentence)

\* line 394
Contextual(bestSentence) == <<"*", "*", "B", "a", "s", "e", "d", " ", "o", "n", " ", "t", "h", "e", " ", "d", "o", "c", "u", "m", "e", "n", "t", ":", "*", "*">> \o <<LF>> \o Trim(bestSentence)

\* lines 370-395
generateContextualAnswer(q, contexts) ==
  LET questionWords == SelectSeq(SplitWS(ToLowerCase(q)), LAMBDA word : Len(word) > 3)
      best(contextText, sentences) ==
        BestSentence(sentences, questionWords,
                     IF sentences # <<>> THEN sentences[1] ELSE Substring0(contextText, 100), 0)
      withText(contextText) == best(contextText, LongSentences(contextText, 10))
  IN  Contextual(withText(cleanAndFormatText(contexts[1].text)))

\* lines 48-109 of generateAnswer, for a non-empty list of contexts: the
\* answer and the handler whose return statement produced it
AnswerFor(q, primary, docType) ==
  LET answered(questionLower) ==
    LET asks(kw) == Includes(questionLower, kw)
        \* lines 97-109
        general ==
          IF asks(<<"s", "u", "m", "m", "a", "r", "y">>) \/ asks(<<"o", "v", "e", "r", "v", "i", "e", "w">>) \/ asks(<<"a", "b", "o", "u", "t">>) \/ asks(<<"w", "h", "a", "t", " ", "i", "s">>)
            THEN [handler |-> "summary", answer |-> generateSmartSummary(primary)]
            ELSE [handler |-> "default", answer |-> generateContextualAnswer(q, primary)]
        \* lines 88-94
        byDates(dates) ==
          IF (asks(<<"d", "a", "t", "e">>) \/ asks(<<"w", "h", "e", "n">>) \/ asks(<<"y", "e", "a", "r">>) \/ asks(<<"t", "i", "m", "e">>)) /\ dates # <<>>
            THEN [handler |-> "date",
                  answer |-> <<"*", "*", "D", "a", "t", "e", "s", " ", "m", "e", "n", "t", "i", "o", "n", "e", "d", ":", "*", "*">> \o <<LF>> \o BulletLines(dates)]
            ELSE general
        \* lines 80-86
        byOrgs(orgs, contextText) ==
          IF (asks(<<"c", "o", "m", "p", "a", "n", "y">>) \/ asks(<<"o", "r", "g", "a", "n", "i", "z", "a", "t", "i", "o", "n">>) \/ asks(<<"i", "s", "s", "u", "e", "d", " ", "b", "y">>)) /\ orgs # <<>>
            THEN [handler |-> "organization",
                  answer |-> <<"*", "*", "O", "r", "g", "a", "n", "i", "z", "a", "t", "i", "o", "n", "/", "C", "o", "m", "p", "a", "n", "y", ":", "*", "*">> \o <<LF>> \o BulletLines(orgs)]
            ELSE byDates(extractDates(contextText))
        \* lines 72-78
        byCourses(courses, contextText) ==
          IF (asks(<<"c", "o", "u", "r", "s", "e">>) \/ asks(<<"t", "r", "a", "i", "n", "i", "n", "g">>) \/ asks(<<"p", "r", "o", "g", "r", "a", "m">>)) /\ courses # <<>>
            THEN [handler |-> "course",
                  answer |-> <<"*", "*", "C", "o", "u", "r", "s", "e", "/", "T", "r", "a", "i", "n", "i", "n", "g", " ", "I", "n", "f", "o", "r", "m", "a", "t", "i", "o", "n", ":", "*", "*">> \o <<LF>> \o BulletLines(courses)]
            ELSE byOrgs(extractOrganizations(contextText), contextText)
        \* lines 62-70
        byNames(names, contextText) ==
          IF (asks(<<"n", "a", "m", "e">>) \/ asks(<<"w", "h", "o">>)) /\ names # <<>>
            THEN [handler |-> "name",
                  answer |-> IF Len(names) = 1
                               THEN <<"T", "h", "e", " ", "n", "a", "m", "e", " ", "m", "e", "n", "t", "i", "o", "n", "e", "d", " ", "i", "s", ":", " ", "*", "*">> \o names[1] \o <<"*", "*">>
                               ELSE <<"N", "a", "m", "e", "s", " ", "m", "e", "n", "t", "i", "o", "n", "e", "d", ":", " ", "*", "*">> \o JoinWith(names, <<",", " ">>) \o <<"*", "*">>]
            ELSE byCourses(extractCourses(contextText), contextText)
        withText(contextText) == byNames(extractNames(contextText), contextText)
    IN  \* lines 57-60
        IF docType = "certificate" \/ asks(<<"c", "e", "r", "t", "i", "f", "i", "c", "a", "t", "e">>) \/ asks(<<"c", "e", "r", "t", "i", "f", "i", "c", "a", "t", "i", "o", "n">>)
          THEN [handler |-> "certificate", answer |-> handleCertificateQuery(questionLower, primary)]
          ELSE withText(primary[1].text)
  IN  answered(ToLowerCase(q))

\* the literal of line 45 replaced by the empty string
NoContextAnswerEmpty == <<>>

\* line 45
NoContextAnswer == <<"N", "o", " ", "r", "e", "l", "e", "v", "a", "n", "t", " ", "c", "o", "n", "t", "e", "x", "t", " ", "f", "o", "u", "n", "d", ".">>

(***************************************************************************)
(* generateAnswer (lines 43-110) and the return of queryRAG (412-422)      *)
(***************************************************************************)
GenerateAnswer ==
  /\ qpc = "answer"
  /\ IF hits = <<>>
       THEN \* if (!contexts.length) return 'No relevant context found.'
            /\ contextsBySource' = <<>>
            /\ primarySource' = <<>>
            /\ primaryContexts' = <<>>
            /\ documentType' = "none"
            /\ handler' = "none"
            /\ answer' = NoContextAnswer
       ELSE LET returned(bySource, docType, out) ==
                  /\ contextsBySource' = bySource
                  /\ primarySource' = bySource[1].source
                  /\ primaryContexts' = bySource[1].contexts
                  /\ documentType' = docType
                  /\ handler' = out.handler
                  /\ answer' = out.answer
                typed(bySource, docType) ==
                  returned(bySource, docType, AnswerFor(question, bySource[1].contexts, docType))
                grouped(bySource) == typed(bySource, detectDocumentType(bySource[1].contexts))
            IN  grouped(groupContextsBySource(hits))
  /\ qpc' = "return"
  /\ UNCHANGED <<topK, sourceFilter, request, nearest, fetched, hits, question, response>>
  /\ UNCHANGED <<chunkVars, embedVars, ingestVars, sse>>

\* slip: only the contexts the answer was made from are returned
QueryReturnPrimaryOnly ==
  /\ qpc = "return"
  /\ response' = [answer   |-> answer,
                  contexts |-> [k \in 1..Len(primaryContexts) |->
                                  [text |-> primaryContexts[k].text,
                                   source |-> primaryContexts[k].source,
                                   metadata |-> <<>>, page |-> primaryContexts[k].page,
                                   type |-> primaryContexts[k].type,
                                   score |-> primaryContexts[k].score]]]
  /\ qpc' = "done"
  /\ UNCHANGED <<topK, sourceFilter, request, nearest, fetched, hits, contextsBySource,
                 primarySource, primaryContexts, documentType, question, answer, handler>>
  /\ UNCHANGED <<chunkVars, embedVars, ingestVars, sse>>

\* lines 412-422: return { answer, contexts: hits.map(h => ({...})) }
QueryReturn ==
  /\ qpc = "return"
  /\ response' = [answer   |-> answer,
                  contexts |-> [k \in 1..Len(hits) |->
                                  [text |-> hits[k].text, source |-> hits[k].source,
                                   metadata |-> <<>>, page |-> hits[k].page, type |-> hits[k].type,
                                   score |-> hits[k].score]]]
  /\ qpc' = "done"
  /\ UNCHANGED <<topK, sourceFilter, request, nearest, fetched, hits, contextsBySource,
                 primarySource, primaryContexts, documentType, question, answer, handler>>
  /\ UNCHANGED <<chunkVars, embedVars, ingestVars, sse>>

NextQuery == VectorSearch \/ GenerateAnswer \/ QueryReturn


(***************************************************************************)
(* Questions and contexts generateAnswer is exercised with                 *)
(***************************************************************************)
ScenarioAText == <<"J", "o", "h", "n", " ", "S", "m", "i", "t", "h", " ", "w", "a", "s", " ", "a", "w", "a", "r", "d", "e", "d", " ", "t", "h", "i", "s", " ", "C", "e", "r", "t", "i", "f", "i", "c", "a", "t", "e", " ", "f", "o", "r", " ", "c", "o", "m", "p", "l", "e", "t", "i", "n", "g", " ", "t", "h", "e", " ", "c", "o", "u", "r", "s", "e", " ", "D", "a", "t", "a", " ", "S", "c", "i", "e", "n", "c", "e", " ", "i", "s", "s", "u", "e", "d", " ", "b", "y", " ", "C", "o", "u", "r", "s", "e", "r", "a", " ", "o", "n", " ", "J", "u", "n", "e", " ", "1", ",", " ", "2", "0", "2", "3", ".">>
ScenarioAQuestion == <<"w", "h", "a", "t", " ", "i", "s", " ", "t", "h", "i", "s", " ", "a", "b", "o", "u", "t">>

Questions ==
  { ScenarioAQuestion,
    <<"w", "h", "o", " ", "r", "e", "c", "e", "i", "v", "e", "d", " ", "t", "h", "e", " ", "c", "e", "r", "t", "i", "f", "i", "c", "a", "t", "e">>,
    <<"w", "h", "o", " ", "i", "s", " ", "n", "a", "m", "e", "d">>,
    <<"w", "h", "i", "c", "h", " ", "t", "r", "a", "i", "n", "i", "n", "g", " ", "p", "r", "o", "g", "r", "a", "m">>,
    <<"i", "s", "s", "u", "e", "d", " ", "b", "y", " ", "w", "h", "i", "c", "h", " ", "c", "o", "m", "p", "a", "n", "y">>,
    <<"w", "h", "e", "n">>,
    <<"s", "u", "m", "m", "a", "r", "y">>,
    <<"t", "e", "l", "l", " ", "m", "e", " ", "m", "o", "r", "e">> }

\* contexts as vectorSearch hands them on, each with its score (all above 0.4)
AnswerCorpus ==
  { [source |-> SrcA, page |-> 0, type |-> "text", score |-> 95, text |-> ScenarioAText],
    [source |-> SrcA, page |-> 0, type |-> "text", score |-> 90,
     text |-> <<"I", "n", "t", "e", "r", "n", "s", "h", "i", "p", " ", "c", "e", "r", "t", "i", "f", "i", "c", "a", "t", "e", " ", "o", "f", " ", "m", "e", "r", "i", "t", " ", "h", "e", "r", "e">>],
    [source |-> SrcB, page |-> 0, type |-> "text", score |-> 85,
     text |-> <<"T", "r", "a", "i", "n", "i", "n", "g", ":", " ", "M", "a", "c", "h", "i", "n", "e", " ", "L", "e", "a", "r", "n", "i", "n", "g", " ", "a", "t", " ", "A", "c", "m", "e", " ", "U", "n", "i", "v", "e", "r", "s", "i", "t", "y", ",", " ", "2", "0", "2", "1", "-", "0", "3", "-", "0", "4", ".">>],
    [source |-> SrcB, page |-> 1, type |-> "text", score |-> 80,
     text |-> <<"C", "o", "n", "t", "a", "c", "t", " ", "J", "a", "n", "e", " ", "D", "o", "e", " ", "a", "t", " ", "t", "h", "e", " ", "o", "f", "f", "i", "c", "e", ".">>],
    [source |-> SrcB, page |-> 2, type |-> "text", score |-> 75,
     text |-> <<"R", "e", "v", "e", "n", "u", "e", " ", "a", "n", "d", " ", "p", "r", "o", "f", "i", "t", " ", "r", "o", "s", "e", " ", "i", "n", " ", "2", "0", "2", "0", ".", " ", "S", "k", "i", "l", "l", "s", " ", "m", "a", "t", "t", "e", "r", ".">>],
    [source |-> SrcC, page |-> 0, type |-> "image_ocr", score |-> 70, text |-> <<"D", "i", "p", "l", "o", "m", "a">>],
    [source |-> SrcC, page |-> 0, type |-> "image_ocr", score |-> 65, text |-> <<"A", "n", "n", "u", "a", "l", " ", "r", "e", "p", "o", "r", "t">>],
    [source |-> SrcC, page |-> 0, type |-> "chart_ocr", score |-> 60, text |-> <<"B", "a", "r", " ", "c", "h", "a", "r", "t", ";", " ", "l", "e", "g", "e", "n", "d">>],
    [source |-> SrcC, page |-> 0, type |-> "image_ocr", score |-> 55, text |-> <<"H", "i", " ", "t", "h", "e", "r", "e", ".">>],
    [source |-> SrcC, page |-> 0, type |-> "image_ocr", score |-> 50, text |-> <<"#">>],
    \* sentences holding 0, 2 and 1 of the words of "tell me more"
    [source |-> SrcB, page |-> 3, type |-> "text", score |-> 42,
     text |-> <<"N", "o", "t", "h", "i", "n", "g", " ", "w", "a", "s", " ", "s", "a", "i", "d", " ", "h", "e", "r", "e", ".", " ", "P", "l", "e", "a", "s", "e", " ", "t", "e", "l", "l", " ", "m", "e", " ", "m", "o", "r", "e", " ", "o", "f", " ", "i", "t", ".", " ", "S", "o", "m", "e", " ", "m", "o", "r", "e", " ", "w", "o", "r", "d", "s", " ", "t", "h", "e", "r", "e", ".">>],
    \* two sentences holding one of those words each
    [source |-> SrcB, page |-> 4, type |-> "text", score |-> 45,
     text |-> <<"W", "e", " ", "t", "e", "l", "l", " ", "l", "o", "n", "g", " ", "s", "t", "o", "r", "i", "e", "s", ".", " ", "M", "o", "r", "e", " ", "i", "s", " ", "s", "a", "i", "d", " ", "l", "a", "t", "e", "r", " ", "o", "n", ".">>] }

\* the lists of up to n distinct contexts, in descending score order
RECURSIVE ContextLists(_)
ContextLists(n) ==
  IF n = 0 THEN { <<>> }
  ELSE LET shorter == ContextLists(n - 1)
       IN  shorter \cup
           UNION { { Append(l, c) : c \in { d \in AnswerCorpus :
                                               \A k \in 1..(n - 1) : l[k].score > d.score } } :
                   l \in { t \in shorter : Len(t) = n - 1 } }

(***************************************************************************)
(* chunkText                                                               *)
(***************************************************************************)
Chars == {"a", "b", " "}

RECURSIVE SeqsUpTo(_, _)
SeqsUpTo(S, n) ==
  IF n = 0 THEN { <<>> }
  ELSE LET shorter == SeqsUpTo(S, n - 1)
       IN  shorter \cup { Append(s, c) : s \in { t \in shorter : Len(t) = n - 1 }, c \in S }

TextInputs == SeqsUpTo(Chars, MaxTextLen)

\* Scenario C of the specification: 2000 one-letter words, defaults 800/120
ScenarioCWords == 2000
ScenarioCText  == [p \in 1..(2 * ScenarioCWords - 1) |-> IF p % 2 = 1 THEN "w" ELSE " "]
DefaultMaxLen  == 800
DefaultOverlap == 120

\* slip: the overlap is added to the step instead of subtracted
StrideAddsOverlap(ml, ov) == Max(1, ml + ov)

\* slip: the step is one word short
StrideOneShort(ml, ov) == Max(1, ml - ov - 1)

\* slip: the step is not kept at 1 or more
StrideUnclamped(ml, ov) == ml - ov

\* i += Math.max(1, maxLen - overlap)
Stride(ml, ov) == Max(1, ml - ov)

\* chunkText is not running (the other pipelines are being exercised)
ChunkOff ==
  /\ text = <<>> /\ maxLen = DefaultMaxLen /\ overlap = DefaultOverlap
  /\ words = <<>> /\ i = 0 /\ idx = 0 /\ chunks = <<>> /\ wins = <<>>
  /\ cpc = "off"

\* no query is made (the other pipelines are being exercised)
QueryOff ==
  /\ topK = 5 /\ sourceFilter = <<>>
  /\ request = [numCandidates |-> 0, limit |-> 0]
  /\ nearest = <<>> /\ fetched = <<>> /\ hits = <<>>
  /\ contextsBySource = <<>> /\ primarySource = <<>> /\ primaryContexts = <<>>
  /\ documentType = "none"
  /\ question = <<>> /\ answer = <<>> /\ handler = "none"
  /\ response = [answer |-> <<>>, contexts |-> <<>>]
  /\ qpc = "off"

\* no upload is made (the other pipelines are being exercised)
IngestOff ==
  /\ files = <<>> /\ fk = 0 /\ rpc = "off" /\ ingested = <<>> /\ timedOut = {}
  /\ fpc = [k \in Callers |-> "idle"]
  /\ records = [k \in Callers |-> <<>>]
  /\ docs = [k \in Callers |-> <<>>]
  /\ result = [k \in Callers |-> 0]
  /\ store = <<>>
  /\ staged = {}
  /\ conn = "none" /\ timer = "unset" /\ resError = "none"
  /\ thrown = [k \in Callers |-> "none"]
  /\ sse = <<>>

InitChunk ==
  /\ IngestOff
  /\ EmbedOff
  /\ QueryOff
  /\ \/ /\ text \in TextInputs
        /\ maxLen \in 0..MaxMaxLen
        /\ overlap \in (-1)..MaxOverlap
     \/ /\ text = ScenarioCText
        /\ maxLen = DefaultMaxLen
        /\ overlap = DefaultOverlap
  /\ words = <<>>
  /\ i = 0
  /\ idx = 0
  /\ chunks = <<>>
  /\ wins = <<>>
  /\ cpc = "call"

\* lines 2-4: split the text, start with no chunks
ChunkEnter ==
  /\ cpc = "call"
  /\ words' = SplitWS(text)
  /\ i' = 0
  /\ idx' = 0
  /\ chunks' = <<>>
  /\ wins' = <<>>
  /\ cpc' = "loop"
  /\ UNCHANGED <<text, maxLen, overlap>>
  /\ UNCHANGED <<embedVars, queryVars, ingestVars, sse>>

\* lines 5-12: one iteration of the while loop
ChunkIter ==
  /\ cpc = "loop"
  /\ i < Len(words)
  /\ LET window == Slice(words, i, i + maxLen)
         ctext  == JoinSp(window)
     IN  /\ chunks' = Append(chunks, ctext)
         /\ wins' = Append(wins, [start |-> i, len |-> Len(window)])
  /\ idx' = idx + 1
  /\ i' = i + Stride(maxLen, overlap)
  /\ UNCHANGED <<text, maxLen, overlap, words, cpc>>
  /\ UNCHANGED <<embedVars, queryVars, ingestVars, sse>>

\* lines 5, 13: the loop condition fails, return chunks
ChunkReturn ==
  /\ cpc = "loop"
  /\ ~(i < Len(words))
  /\ cpc' = "done"
  /\ UNCHANGED <<text, maxLen, overlap, words, i, idx, chunks, wins>>
  /\ UNCHANGED <<embedVars, queryVars, ingestVars, sse>>

NextChunk == ChunkEnter \/ ChunkIter \/ ChunkReturn

SpecChunk == InitChunk /\ [][NextChunk]_vars

\* chunkText is synchronous code: once called it runs on until it returns
\* (the short texts only: Scenario C is covered by SpecChunk)
InitChunkFair == InitChunk /\ text \in TextInputs

SpecChunkFair == InitChunkFair /\ [][NextChunk]_vars /\ WF_vars(NextChunk)

TypeOKChunk == cpc \in {"off", "call", "loop", "done"}

\* one embedTexts call, of any batch of up to MaxBatch texts
InitEmbed ==
  /\ IngestOff
  /\ ChunkOff
  /\ QueryOff
  /\ EmbedInitCommon
  /\ epc = [c \in Callers |-> IF c = 1 THEN "idle" ELSE "off"]
  /\ \E b \in SeqsUpTo(TextItems, MaxBatch) :
        texts = [c \in Callers |-> IF c = 1 THEN b ELSE <<>>]
  /\ \E cb \in BOOLEAN : hasCb = [c \in Callers |-> c = 1 /\ cb]

SpecEmbed == InitEmbed /\ [][NextEmbed]_vars

\* MaxCallers embedTexts calls in one process, each of a short batch
InitLoad ==
  /\ IngestOff
  /\ ChunkOff
  /\ QueryOff
  /\ EmbedInitCommon
  /\ epc = [c \in Callers |-> "idle"]
  /\ texts \in [Callers -> SeqsUpTo(TextItems, MaxConcBatch)]
  /\ hasCb \in [Callers -> BOOLEAN]

SpecLoad == InitLoad /\ [][NextEmbed]_vars

\* one query: vectorSearch with any topK and source filter, then the grouping
\* and classification of what it returned
InitQuery ==
  /\ IngestOff
  /\ ChunkOff
  /\ EmbedOff
  /\ topK \in 1..MaxTopK
  \* queryRAG passes no source filter; one is given with the smallest topK
  /\ sourceFilter \in (IF topK = 1 THEN SourceFilters ELSE { <<>> })
  /\ request = [numCandidates |-> 0, limit |-> 0]
  /\ nearest = <<>> /\ fetched = <<>> /\ hits = <<>>
  /\ contextsBySource = <<>> /\ primarySource = <<>> /\ primaryContexts = <<>>
  /\ documentType = "none"
  /\ question = ScenarioAQuestion
  /\ answer = <<>> /\ handler = "none"
  /\ response = [answer |-> <<>>, contexts |-> <<>>]
  /\ qpc = "search"

SpecQuery == InitQuery /\ [][NextQuery]_vars

\* vectorSearch on its own: any topK up to MaxTopK, and 11, the first topK
\* whose tenfold is above 100; with and without a source filter
InitSearch ==
  /\ IngestOff
  /\ ChunkOff
  /\ EmbedOff
  /\ topK \in (1..MaxTopK) \cup {11}
  /\ sourceFilter \in SourceFilters
  /\ request = [numCandidates |-> 0, limit |-> 0]
  /\ nearest = <<>> /\ fetched = <<>> /\ hits = <<>>
  /\ contextsBySource = <<>> /\ primarySource = <<>> /\ primaryContexts = <<>>
  /\ documentType = "none"
  /\ question = ScenarioAQuestion
  /\ answer = <<>> /\ handler = "none"
  /\ response = [answer |-> <<>>, contexts |-> <<>>]
  /\ qpc = "search"

SpecSearch == InitSearch /\ [][VectorSearch]_vars

\* generateAnswer called with any of the questions and any list of contexts
InitAnswer ==
  /\ IngestOff
  /\ ChunkOff
  /\ EmbedOff
  /\ topK = 5 /\ sourceFilter = <<>>
  /\ request = [numCandidates |-> 0, limit |-> 0]
  /\ nearest = <<>> /\ fetched = <<>>
  /\ hits \in ContextLists(MaxContexts) \ { <<>> }
  /\ contextsBySource = <<>> /\ primarySource = <<>> /\ primaryContexts = <<>>
  /\ documentType = "none"
  /\ question \in Questions
  /\ answer = <<>> /\ handler = "none"
  /\ response = [answer |-> <<>>, contexts |-> <<>>]
  /\ qpc = "answer"

SpecAnswer == InitAnswer /\ [][GenerateAnswer]_vars

(***************************************************************************)
(* Uploaded files: the path and mimetype multer recorded, the text         *)
(* pdf-parse gives, the text the OCR gives per page (or for the image),    *)
(* and whether pdf-parse rejects the file                                  *)
(***************************************************************************)
FileKinds ==
  { \* a digits-only text layer and a page of exactly 11 characters
    [path |-> <<"a", ".", "p", "d", "f">>, mimetype |-> "application/pdf", broken |-> FALSE,
     text |-> <<"1", "2", "3", "4", "5", " ", "6", "7", "8", "9", "0", " ", "1", "2">>, ocr |-> << <<"c", "h", "a", "r", "t", " ", "s", "a", "l", "e", "s">> >>],
    \* recognised by its extension; blanks around the words; two pages, one too short
    [path |-> <<"b", ".", "P", "D", "F">>, mimetype |-> "application/octet-stream", broken |-> FALSE,
     text |-> <<" ", " ", "F", "i", "r", "s", "t", " ", " ", "t", "e", "x", "t", " ", "o", "n", "e", " ">>, ocr |-> << <<"a", "b", "c">>, <<"a", "w", "a", "r", "d", "e", "d", " ", "t", "o", " ", "J", "a", "n", "e", " ", "D", "o", "e">> >>],
    \* an image whose text is exactly 10 characters long
    [path |-> <<"c", ".", "p", "n", "g">>, mimetype |-> "image/png", broken |-> FALSE,
     text |-> <<>>, ocr |-> << <<"a", "b", "c", "d", "e", "f", "g", "h", "i", "j">> >>],
    \* a PDF pdf-parse cannot read
    [path |-> <<"d", ".", "p", "d", "f">>, mimetype |-> "application/pdf", broken |-> TRUE,
     text |-> <<>>, ocr |-> <<>>],
    \* an image with too little text to be chunked
    [path |-> <<"e", ".", "p", "n", "g">>, mimetype |-> "image/png", broken |-> FALSE,
     text |-> <<>>, ocr |-> << <<"a", "b", "c">> >>] }

\* req.files
Uploads == SeqsUpTo(FileKinds, Min(MaxFiles, MaxCallers))

(***************************************************************************)
(* processFileAndIndex (src/services/ingest.js) and the upload route       *)
(* (src/routes/uploadRoutes.js).  File k of the request is embedded by     *)
(* embedTexts caller k.  What pdf-parse and the OCR give back for a file   *)
(* is part of the file; a page that fails to render counts as a page with  *)
(* no text.  Every request is within the size limits of lines 25-31, 93-97. *)
(***************************************************************************)
\* chunkText(text, { source, page, type }) with the default maxLen and overlap
RECURSIVE ChunkWindows(_, _)
ChunkWindows(ws, at) ==
  IF at < Len(ws)
    THEN <<JoinSp(Slice(ws, at, at + DefaultMaxLen))>>
           \o ChunkWindows(ws, at + Stride(DefaultMaxLen, DefaultOverlap))
    ELSE <<>>

chunkText(t, source, page, type) ==
  LET chunked(ctexts) ==
        [j \in 1..Len(ctexts) |->
           [source |-> source, page |-> page, type |-> type, text |-> ctexts[j],
            metadata |-> <<>>]]
  IN  chunked(ChunkWindows(SplitWS(t), 0))

\* lines 116-125
classifyKind(textLower) ==
  IF IncludesAny(textLower, { <<"f", "i", "g", "u", "r", "e">>, <<"c", "h", "a", "r", "t">>, <<"a", "x", "i", "s">>, <<"x", "-", "a", "x", "i", "s">>, <<"y", "-", "a", "x", "i", "s">>,
                              <<"l", "e", "g", "e", "n", "d">>, <<"g", "r", "a", "p", "h">>, <<"p", "l", "o", "t">>, <<"d", "a", "t", "a">>, <<"t", "r", "e", "n", "d">> })
    THEN "chart_ocr"
  ELSE IF IncludesAny(textLower, { <<"c", "e", "r", "t", "i", "f", "i", "c", "a", "t", "e">>, <<"c", "e", "r", "t", "i", "f", "i", "c", "a", "t", "i", "o", "n">>, <<"a", "w", "a", "r", "d", "e", "d">>,
                                   <<"p", "r", "e", "s", "e", "n", "t", "e", "d">>, <<"i", "s", "s", "u", "e", "d">>, <<"d", "i", "p", "l", "o", "m", "a">>, <<"a", "c", "h", "i", "e", "v", "e", "m", "e", "n", "t">> })
    THEN "certificate_ocr"
  ELSE IF IncludesAny(textLower, { <<"t", "a", "b", "l", "e">>, <<"r", "o", "w">>, <<"c", "o", "l", "u", "m", "n">>, <<"h", "e", "a", "d", "e", "r">>, <<"t", "o", "t", "a", "l">>,
                                   <<"s", "u", "m">> })
    THEN "table_ocr"
  ELSE "image_ocr"

\* lines 128-197: `records` once the extraction is over (page 0 is null)
ExtractedRecords(f) ==
  LET ext   == ToLowerCase(SubSeq(f.path, Len(f.path) - 3, Len(f.path)))
      isPdf == f.mimetype = "application/pdf" \/ ext = <<".", "p", "d", "f">>
      \* if (ocrText.trim() && ocrText.length > 5)
      ocrRecords(ocrText, page) ==
        IF Trim(ocrText) # <<>> /\ Len(ocrText) > 5
          THEN chunkText(ocrText, f.path, page, classifyKind(ToLowerCase(ocrText)))
          ELSE <<>>
  IN  IF isPdf
        THEN (IF Trim(f.text) # <<>> THEN chunkText(f.text, f.path, 0, "text") ELSE <<>>)
               \o Flatten([p \in 1..Len(f.ocr) |-> ocrRecords(f.ocr[p], p)])
        ELSE ocrRecords(f.ocr[1], 0)

\* slip: a trimmed text of exactly 10 characters is kept
IsMeaningfulFrom10(record) ==
  /\ record.text # <<>>
  /\ Len(Trim(record.text)) >= 10
  /\ \E p \in 1..Len(record.text) : record.text[p] \in Letters

\* lines 202-206
IsMeaningful(record) ==
  /\ record.text # <<>>
  /\ Len(Trim(record.text)) > 10
  /\ \E p \in 1..Len(record.text) : record.text[p] \in Letters

\* const docId = `${Date.now()}-${f.originalname}`: the k-th file's time stamp is k
DocId(k) == <<k>> \o files[k].path

\* slip: every record is given the first vector
DocsFirstVector(meaningfulRecords, vectors, docId) ==
  [j \in 1..Len(meaningfulRecords) |->
     [text |-> meaningfulRecords[j].text, source |-> meaningfulRecords[j].source,
      page |-> meaningfulRecords[j].page, type |-> meaningfulRecords[j].type,
      metadata |-> meaningfulRecords[j].metadata,
      docId |-> docId, vector |-> vectors[1]]]

\* lines 213-217
Docs(meaningfulRecords, vectors, docId) ==
  [j \in 1..Len(meaningfulRecords) |->
     [text |-> meaningfulRecords[j].text, source |-> meaningfulRecords[j].source,
      page |-> meaningfulRecords[j].page, type |-> meaningfulRecords[j].type,
      metadata |-> meaningfulRecords[j].metadata,
      docId |-> docId, vector |-> vectors[j]]]

\* slip: the file is reported as deleted without being unlinked
FinallyKeepsFile(k, emitted) ==
  \E unlinked \in BOOLEAN :
     /\ staged' = staged
     /\ events' = [events EXCEPT ![k] =
                     Append(emitted, [type |-> "success", msg |-> <<"Deleted uploaded file">>])]

\* lines 229-241: the staged file is unlinked; a failure is caught and reported.
\* emitted: what the progressCallback of the file has been passed so far
Finally(k, emitted) ==
  \E unlinked \in BOOLEAN :
     /\ staged' = IF unlinked THEN staged \ {k} ELSE staged
     /\ events' = [events EXCEPT ![k] =
                     Append(emitted,
                            IF unlinked THEN [type |-> "success", msg |-> <<"Deleted uploaded file">>]
                                        ELSE [type |-> "error", msg |-> <<"Failed to delete file">>])]

\* slip: the try/catch sits inside the loop, which goes on with the next file
CatchInsideLoop == "loop"

\* lines 102, 138-163: the catch block is outside the for loop; it ends the request
CatchTarget == "error"

\* lines 74-99: the request is checked
UploadStart ==
  /\ rpc = "start"
  /\ rpc' = IF files = <<>> THEN "bad" ELSE "loop"
  /\ resError' = IF files = <<>> THEN "No files uploaded" ELSE resError
  /\ sse' = sse \o sendProgressUpdate(0, "info", "*", <<"Upload endpoint hit">>)
               \o (IF files = <<>>
                     THEN sendProgressUpdate(0, "error", "*", <<"No files uploaded">>)
                     ELSE sendProgressUpdate(0, "info", "*", <<"Processing file(s)", Len(files)>>))
  /\ UNCHANGED <<files, fk, ingested, timedOut, fpc, records, docs, result, store, staged>>
  /\ UNCHANGED <<conn, timer, thrown>>
  /\ UNCHANGED <<chunkVars, embedVars, queryVars>>

\* lines 105-120 and 124-136: the loop takes the next file and calls
\* processFileAndIndex, which runs up to its first await (ingest.js 128-136),
\* or the loop is over: the total is reported, the completion timer is set
\* and the request is answered
UploadNext ==
  /\ rpc = "loop"
  /\ IF fk < Len(files)
       THEN /\ fpc' = [fpc EXCEPT ![fk + 1] = "extract"]
            /\ rpc' = "await"
            /\ sse' = sse \o sendProgressUpdate(0, "processing", "*",
                                                <<"Processing file">> \o files[fk + 1].path)
            /\ UNCHANGED timer
       ELSE /\ rpc' = "ok"
            /\ sse' = sse \o sendProgressUpdate(0, "success", "*",
                                                <<"Processing complete! Total chunks">>)
            /\ timer' = "set"
            /\ UNCHANGED fpc
  /\ UNCHANGED <<files, fk, ingested, timedOut, records, docs, result, store, staged>>
  /\ UNCHANGED <<conn, resError, thrown>>
  /\ UNCHANGED <<chunkVars, embedVars, queryVars>>

\* ingest.js 132-212: the extraction is over (or threw); the records are
\* filtered and embedTexts is called with the texts that are left
FileExtracted(k) ==
  /\ fpc[k] = "extract"
  /\ IF files[k].broken
       THEN \* pdfParse rejects: finally, then the promise rejects
            /\ fpc' = [fpc EXCEPT ![k] = "threw"]
            /\ thrown' = [thrown EXCEPT ![k] = "Invalid PDF structure"]
            /\ Finally(k, events[k])
            /\ UNCHANGED <<records, result, epc, texts, hasCb>>
       ELSE LET filtered(all) == SelectSeq(all, IsMeaningful)
                called(meaningfulRecords) ==
                  IF meaningfulRecords = <<>>
                    THEN \* return { count: 0 } (lines 199 and 208), then finally
                         /\ result' = [result EXCEPT ![k] = 0]
                         /\ fpc' = [fpc EXCEPT ![k] = "returned"]
                         /\ Finally(k, events[k])
                         /\ UNCHANGED <<epc, texts, hasCb, thrown>>
                    ELSE \* embedTexts(texts, progressCallback)
                         /\ texts' = [texts EXCEPT ![k] =
                                        [j \in 1..Len(meaningfulRecords) |-> meaningfulRecords[j].text]]
                         /\ hasCb' = [hasCb EXCEPT ![k] = TRUE]
                         /\ epc' = [epc EXCEPT ![k] = "idle"]
                         /\ fpc' = [fpc EXCEPT ![k] = "embed"]
                         /\ UNCHANGED <<result, staged, events, thrown>>
                extracted(all) == /\ records' = [records EXCEPT ![k] = all]
                                  /\ called(filtered(all))
            IN  extracted(ExtractedRecords(files[k]))
  /\ Notify(k)
  /\ UNCHANGED <<files, fk, rpc, ingested, timedOut, docs, store, conn, timer, resError>>
  /\ UNCHANGED <<embedder, loads, loadId, model, ei, embeddings, failed, ret>>
  /\ UNCHANGED <<chunkVars, queryVars>>

\* ingest.js 212-227: embedTexts is over; the docs are built, the progress
\* is reported and Chunk.insertMany(docs) is called -- or embedTexts threw
FileEmbedded(k) ==
  /\ fpc[k] = "embed"
  /\ epc[k] \in {"done", "threw"}
  /\ IF epc[k] = "threw"
       THEN /\ fpc' = [fpc EXCEPT ![k] = "threw"]
            /\ thrown' = [thrown EXCEPT ![k] = "Embedding generation failed"]
            /\ Finally(k, events[k])
            /\ UNCHANGED docs
       ELSE LET vectors == ret[k]
                built(d) ==
                  /\ docs' = [docs EXCEPT ![k] = d]
                  /\ events' = [events EXCEPT ![k] =
                       @ \o << [type |-> "success", msg |-> <<"Ingested chunks", Len(d)>>] >>
                         \o (IF Len(vectors) > 0
                               THEN << [type |-> "info",
                                        msg |-> <<"Embedding vector size", Len(vectors[1])>>] >>
                               ELSE <<>>)]
            IN  /\ built(Docs(SelectSeq(records[k], IsMeaningful), vectors, DocId(k)))
                /\ fpc' = [fpc EXCEPT ![k] = "insert"]
                /\ UNCHANGED <<staged, thrown>>
  /\ Notify(k)
  /\ UNCHANGED <<files, fk, rpc, ingested, timedOut, records, result, store>>
  /\ UNCHANGED <<conn, timer, resError>>
  /\ UNCHANGED <<embedder, loads, epc, texts, hasCb, loadId, model, ei, embeddings, failed, ret>>
  /\ UNCHANGED <<chunkVars, queryVars>>

\* ingest.js 227-241: insertMany resolves; return { count: docs.length }
InsertResolve(k) ==
  /\ fpc[k] = "insert"
  /\ store' = store \o docs[k]
  /\ result' = [result EXCEPT ![k] = Len(docs[k])]
  /\ fpc' = [fpc EXCEPT ![k] = "returned"]
  /\ Finally(k, events[k])
  /\ Notify(k)
  /\ UNCHANGED <<files, fk, rpc, ingested, timedOut, records, docs>>
  /\ UNCHANGED <<conn, timer, resError, thrown>>
  /\ UNCHANGED <<embedder, loads, epc, texts, hasCb, loadId, model, ei, embeddings, failed, ret>>
  /\ UNCHANGED <<chunkVars, queryVars>>

\* slip: a failed write takes what the collection held with it
InsertRejectClearsStore(k) ==
  /\ fpc[k] = "insert"
  /\ store' = <<>>
  /\ fpc' = [fpc EXCEPT ![k] = "threw"]
  /\ thrown' = [thrown EXCEPT ![k] = "insertMany failed"]
  /\ Finally(k, events[k])
  /\ Notify(k)
  /\ UNCHANGED <<files, fk, rpc, ingested, timedOut, records, docs, result>>
  /\ UNCHANGED <<conn, timer, resError>>
  /\ UNCHANGED <<embedder, loads, epc, texts, hasCb, loadId, model, ei, embeddings, failed, ret>>
  /\ UNCHANGED <<chunkVars, queryVars>>

\* ingest.js 227, 229-241: insertMany rejects.  The insert is ordered: the
\* documents before the one that failed stay written
InsertReject(k) ==
  /\ fpc[k] = "insert"
  /\ \E written \in 0..(Len(docs[k]) - 1) :
        store' = store \o SubSeq(docs[k], 1, written)
  /\ fpc' = [fpc EXCEPT ![k] = "threw"]
  /\ thrown' = [thrown EXCEPT ![k] = "insertMany failed"]
  /\ Finally(k, events[k])
  /\ Notify(k)
  /\ UNCHANGED <<files, fk, rpc, ingested, timedOut, records, docs, result>>
  /\ UNCHANGED <<conn, timer, resError>>
  /\ UNCHANGED <<embedder, loads, epc, texts, hasCb, loadId, model, ei, embeddings, failed, ret>>
  /\ UNCHANGED <<chunkVars, queryVars>>

\* lines 138-163: the catch block reports the error on the stream, closes the
\* connection of the session (a write that throws is caught) and answers 500
Catch(message) ==
  /\ resError' = message
  /\ sse' = sse \o sendProgressUpdate(0, "error", "*", <<"Error">> \o <<message>>)
               \o (IF conn = "open"
                     THEN <<[via |-> 0, type |-> "error", message |-> <<message>>]>>
                     ELSE <<>>)
  /\ conn' = "none"

\* lines 116-120 and 138: the timer of the file fires before processFileAndIndex
\* has settled; Promise.race rejects and the catch block runs.  Nothing stops
\* the call of processFileAndIndex.
RaceTimeout ==
  /\ rpc = "await"
  /\ fpc[fk + 1] \notin {"returned", "threw"}
  /\ timedOut' = timedOut \cup {fk + 1}
  /\ fk' = fk + 1
  /\ rpc' = CatchTarget
  /\ Catch("File processing timeout")
  /\ UNCHANGED <<files, ingested, fpc, records, docs, result, store, staged>>
  /\ UNCHANGED <<timer, thrown>>
  /\ UNCHANGED <<chunkVars, embedVars, queryVars>>

\* lines 120-121 and 138: processFileAndIndex settles first
RaceSettled ==
  /\ rpc = "await"
  /\ fpc[fk + 1] \in {"returned", "threw"}
  /\ IF fpc[fk + 1] = "returned"
       THEN \* ingested.push({ docId, ...result })
            /\ ingested' = Append(ingested, [docId |-> DocId(fk + 1), count |-> result[fk + 1]])
            /\ rpc' = "loop"
            /\ UNCHANGED <<conn, resError, sse>>
       ELSE /\ rpc' = CatchTarget
            /\ Catch(thrown[fk + 1])
            /\ UNCHANGED ingested
  /\ fk' = fk + 1
  /\ UNCHANGED <<files, timedOut, fpc, records, docs, result, store, staged>>
  /\ UNCHANGED <<timer, thrown>>
  /\ UNCHANGED <<chunkVars, embedVars, queryVars>>

\* lines 127-134: a second after the answer the completion timer fires; it
\* writes the last event and closes the connection, outside any try block, so
\* that a write that throws is an uncaught exception of the process
CompletionTimer ==
  /\ timer = "set"
  /\ timer' = IF conn = "broken" THEN "uncaught" ELSE "fired"
  /\ sse' = IF conn = "open" THEN Append(sse, [via |-> 0, type |-> "complete"]) ELSE sse
  /\ conn' = IF conn = "open" THEN "none" ELSE conn
  /\ UNCHANGED <<files, fk, rpc, ingested, timedOut, fpc, records, docs, result, store, staged>>
  /\ UNCHANGED <<resError, thrown>>
  /\ UNCHANGED <<chunkVars, embedVars, queryVars>>

\* the embedTexts steps of a file: a text that passed the filter of lines
\* 202-206 is never empty once cleaned, so lines 69-73 never run here
NextIngest ==
  \/ UploadStart
  \/ UploadNext
  \/ RaceTimeout
  \/ RaceSettled
  \/ CompletionTimer
  \/ \E k \in Callers :
        \/ FileExtracted(k)
        \/ FileEmbedded(k)
        \/ InsertResolve(k)
        \/ InsertReject(k)
        \/ EmbedCall(k)
        \/ LoadResolve(k)
        \/ LoadReject(k)
        \/ EmbedBegin(k)
        \/ EmbedIterOk(k)
        \/ EmbedIterFail(k)
        \/ EmbedReturn(k)

\* one upload request of at most MaxFiles files
InitIngest ==
  /\ ChunkOff
  /\ QueryOff
  /\ EmbedInitCommon
  /\ epc = [c \in Callers |-> "off"]
  /\ texts = [c \in Callers |-> <<>>]
  /\ hasCb = [c \in Callers |-> FALSE]
  /\ files \in Uploads
  /\ fk = 0 /\ rpc = "start" /\ ingested = <<>> /\ timedOut = {}
  /\ fpc = [k \in Callers |-> "idle"]
  /\ records = [k \in Callers |-> <<>>]
  /\ docs = [k \in Callers |-> <<>>]
  /\ result = [k \in Callers |-> 0]
  /\ store = <<>>
  /\ staged = 1..Len(files)
  /\ conn \in {"none", "open", "broken"}
  /\ timer = "unset" /\ resError = "none"
  /\ thrown = [k \in Callers |-> "none"]
  /\ sse = <<>>

SpecIngest == InitIngest /\ [][NextIngest]_vars

(***************************************************************************)
(* The server at work on an upload and a query at once (src/server.js      *)
(* mounts both routes).  queryRAG embeds the question as the last caller   *)
(* of embedTexts, without a progress callback; the upload has one file.    *)
(***************************************************************************)
QueryCaller == MaxCallers

\* a chunk an earlier upload has committed
Committed ==
  << [text |-> <<"I", "s", "s", "u", "e", "d", " ", "S", "a", "l", "e", "s">>, source |-> SrcA, page |-> 0, type |-> "text",
      metadata |-> <<>>, docId |-> <<0>> \o SrcA,
      vector |-> ModelOutput(<<"I", "s", "s", "u", "e", "d", " ", "S", "a", "l", "e", "s">>)] >>

\* query.js 397-401: const [qv] = await embedTexts([question]) resumes; an
\* error of embedTexts is not caught, so queryRAG rejects with it
QueryEmbedded ==
  /\ qpc = "embed"
  /\ epc[QueryCaller] \in {"done", "threw"}
  /\ qpc' = IF epc[QueryCaller] = "threw" THEN "failed" ELSE "search"
  /\ UNCHANGED <<topK, sourceFilter, request, nearest, fetched, hits, contextsBySource,
                 primarySource, primaryContexts, documentType, question, answer, handler,
                 response>>
  /\ UNCHANGED <<chunkVars, embedVars, ingestVars, sse>>

NextServer == NextIngest \/ NextQuery \/ QueryEmbedded

\* one file of at most one page is uploaded to a collection that holds a
\* chunk already, no progress client is connected, and queryRAG has been
\* called with the default topK and has called embedTexts([question])
InitServer ==
  /\ ChunkOff
  /\ EmbedInitCommon
  /\ epc = [c \in Callers |-> IF c = QueryCaller THEN "idle" ELSE "off"]
  /\ texts = [c \in Callers |-> IF c = QueryCaller THEN <<ScenarioAQuestion>> ELSE <<>>]
  /\ hasCb = [c \in Callers |-> FALSE]
  /\ files \in { <<f>> : f \in { g \in FileKinds : Len(g.ocr) <= 1 } }
  /\ fk = 0 /\ rpc = "start" /\ ingested = <<>> /\ timedOut = {}
  /\ fpc = [k \in Callers |-> "idle"]
  /\ records = [k \in Callers |-> <<>>]
  /\ docs = [k \in Callers |-> <<>>]
  /\ result = [k \in Callers |-> 0]
  /\ store = Committed
  /\ staged = {1}
  /\ conn = "none" /\ timer = "unset" /\ resError = "none"
  /\ thrown = [k \in Callers |-> "none"]
  /\ sse = <<>>
  /\ topK = 5 /\ sourceFilter = <<>>
  /\ request = [numCandidates |-> 0, limit |-> 0]
  /\ nearest = <<>> /\ fetched = <<>> /\ hits = <<>>
  /\ contextsBySource = <<>> /\ primarySource = <<>> /\ primaryContexts = <<>>
  /\ documentType = "none"
  /\ question = ScenarioAQuestion
  /\ answer = <<>> /\ handler = "none"
  /\ response = [answer |-> <<>>, contexts |-> <<>>]
  /\ qpc = "embed"

SpecServer == InitServer /\ [][NextServer]_vars

(***************************************************************************)
(* Properties of vectorSearch, groupContextsBySource, detectDocumentType   *)
(***************************************************************************)
\* C7: vectorSearch returns at most topK results, and never a result whose
\* score is <= 0.4; every result is one the store handed back.
C7_TopKAboveThreshold ==
  qpc \in {"answer", "done"} =>
     /\ Len(hits) <= topK
     /\ \A h \in 1..Len(hits) :
           /\ ~(hits[h].score <= MinScore)
           /\ \E f \in 1..Len(fetched) : fetched[f] = hits[h]

\* more results above the threshold than topK, and one at the threshold itself
C7_Witness ==
  /\ qpc = "answer"
  /\ Cardinality({ f \in 1..Len(fetched) : fetched[f].score > MinScore }) > topK
  /\ \E f \in 1..Len(fetched) : fetched[f].score = MinScore
  /\ Len(hits) = topK

\* position of a retrieved context in the list vectorSearch returned
HitPos(ctx) == CHOOSE h \in 1..Len(hits) : hits[h] = ctx

\* the (group, member) places of the grouping at which ctx sits
PlacesOf(ctx) ==
  { gj \in (1..Len(contextsBySource)) \X (1..MaxHits) :
       /\ gj[2] <= Len(contextsBySource[gj[1]].contexts)
       /\ contextsBySource[gj[1]].contexts[gj[2]] = ctx }

\* C8: the groups partition the retrieved contexts: every context sits in
\* exactly one group, the one keyed by its own source, nothing else is in a
\* group, and inside a group the contexts keep their input order.
C8_GroupsPartitionContexts ==
  (qpc = "done" /\ hits # <<>>) =>
     /\ \A h \in 1..Len(hits) :
           /\ Cardinality(PlacesOf(hits[h])) = 1
           /\ \A gj \in PlacesOf(hits[h]) :
                 contextsBySource[gj[1]].source = hits[h].source
     /\ \A g \in 1..Len(contextsBySource) :
           LET members == contextsBySource[g].contexts
           IN  /\ members # <<>>
               /\ \A j \in 1..Len(members) : \E h \in 1..Len(hits) : hits[h] = members[j]
               /\ \A j1, j2 \in 1..Len(members) :
                     j1 < j2 => HitPos(members[j1]) < HitPos(members[j2])
     /\ \A g1, g2 \in 1..Len(contextsBySource) :
           g1 # g2 => contextsBySource[g1].source # contextsBySource[g2].source

\* two sources, the contexts of one of them around a context of the other
C8_Witness ==
  /\ qpc = "done" /\ Len(hits) = 3 /\ Len(contextsBySource) = 2
  /\ hits[1].source = hits[3].source /\ hits[2].source # hits[1].source

\* summed score of the retrieved contexts of one source, taken from hits
RECURSIVE SumOfHits(_)
SumOfHits(H) ==
  IF H = {} THEN 0
  ELSE LET h == CHOOSE x \in H : TRUE IN hits[h].score + SumOfHits(H \ {h})

SourceTotal(src) == SumOfHits({ h \in 1..Len(hits) : hits[h].source = src })

\* C9: the groups come in descending order of their summed scores, and the
\* primary document is the first group: a source whose summed score is
\* maximal among the retrieved sources.
C9_GroupsBySummedScore ==
  (qpc = "done" /\ hits # <<>>) =>
     /\ \A g1, g2 \in 1..Len(contextsBySource) :
           g1 < g2 => SourceTotal(contextsBySource[g1].source)
                        >= SourceTotal(contextsBySource[g2].source)
     /\ primarySource = contextsBySource[1].source
     /\ primaryContexts = contextsBySource[1].contexts
     /\ \A h \in 1..Len(hits) :
           /\ SourceTotal(primarySource) >= SourceTotal(hits[h].source)
           /\ hits[h].source = primarySource =>
                 \E j \in 1..Len(primaryContexts) : primaryContexts[j] = hits[h]

\* the best single hit belongs to a source that is not the primary one
C9_Witness ==
  /\ qpc = "done" /\ Len(contextsBySource) >= 2
  /\ hits[1].source # primarySource
  /\ SourceTotal(primarySource) > SourceTotal(hits[1].source)

HasCertificateKeyword(t) == IncludesAny(ToLowerCase(t), CertificateKeywords)
HasFinancialKeyword(t)   == IncludesAny(ToLowerCase(t), FinancialKeywords)

C1_SingleFlightLoad ==
  /\ Cardinality({ c \in Callers : epc[c] = "loading" }) <= 1
  /\ \A c1, c2 \in Callers :
        (model[c1] # 0 /\ model[c2] # 0) => model[c1] = model[c2]

\* what embedTexts must return at 0-based index k of the batch of caller c
ExpectedVector(c, k) ==
  LET cleanText == CleanText(texts[c][k + 1])
  IN  IF cleanText = <<>> \/ k \in failed[c] THEN ZeroVector ELSE ModelOutput(cleanText)

\* C2: whatever items fail, an embedTexts call that has its model never throws,
\* and it returns one vector per input, in input order: the zero vector of
\* length 384 at each empty or failed index, the model's output for the input
\* of the same index everywhere else.
C2_OneVectorPerInput ==
  \A c \in Callers :
     /\ model[c] # 0 => epc[c] # "threw"
     /\ epc[c] = "done" =>
          /\ Len(ret[c]) = Len(texts[c])
          /\ \A k \in 0..(Len(texts[c]) - 1) :
                /\ ret[c][k + 1] = ExpectedVector(c, k)
                /\ DOMAIN ret[c][k + 1] = 1..EmbeddingDim

\* Scenario D: the items at indices 1 and 3 failed, the others did not
C2_Witness ==
  \E c \in Callers :
     /\ epc[c] = "done" /\ Len(texts[c]) = 4 /\ failed[c] = {1, 3}
     /\ ret[c][2] = ZeroVector /\ ret[c][4] = ZeroVector
     /\ ret[c][1] # ZeroVector /\ ret[c][3] # ZeroVector

(***************************************************************************)
(* Properties of chunkText                                                 *)
(***************************************************************************)
\* the word positions (0-based, end exclusive) of the k-th returned window
WinStart(k) == wins[k].start
WinEnd(k)   == wins[k].start + wins[k].len

\* the k-th chunk's text tokenises to exactly the words of the k-th window
ChunkHoldsWindow(k) == SplitWS(chunks[k]) = Slice(words, WinStart(k), WinEnd(k))

\* every token of the split is a word (no leading or trailing whitespace)
NoEmptyWord == \A w \in 1..Len(words) : words[w] # <<>>

\* number of word positions that windows k and k+1 have in common
Shared(k) == Max(0, Min(WinEnd(k), WinEnd(k + 1)) - WinStart(k + 1))

\* C3: with maxLen >= 1 and overlap >= 0 the returned windows together contain
\* every word of the input: every word position lies inside some window, and
\* each chunk's text consists of the words of its window.
C3_WindowsCoverEveryWord ==
  (cpc = "done" /\ maxLen >= 1 /\ overlap >= 0) =>
     /\ \A k \in 1..Len(chunks) : ChunkHoldsWindow(k)
     /\ \A p \in 0..(Len(words) - 1) :
          \E k \in 1..Len(wins) : WinStart(k) <= p /\ p < WinEnd(k)

C3_Witness ==
  /\ cpc = "done" /\ maxLen >= 1 /\ overlap >= 1
  /\ Len(words) >= 3 /\ Len(wins) >= 2 /\ maxLen < Len(words)

\* C4 as stated: for every text, maxLen and overlap, two consecutive windows
\* share exactly `overlap` word positions, except possibly the pair that ends
\* with the final, shorter window (stated here for maxLen >= 1, overlap >= 0
\* and texts without leading or trailing whitespace only, where the claim
\* already fails).
C4_AsStated ==
  (cpc = "done" /\ maxLen >= 1 /\ overlap >= 0 /\ NoEmptyWord) =>
     \A k \in 1..(Len(wins) - 1) :
        \/ (k + 1 = Len(wins) /\ wins[k + 1].len < maxLen)
        \/ Shared(k) = overlap

\* C4 amended: for 0 <= overlap < maxLen, two consecutive windows of which the
\* first holds maxLen words share exactly `overlap` word positions, and the
\* second chunk begins with the last `overlap` words of the first.
C4_FullWindowsOverlap ==
  (cpc = "done" /\ 0 <= overlap /\ overlap < maxLen) =>
     \A k \in 1..(Len(wins) - 1) :
        wins[k].len = maxLen =>
           /\ Shared(k) = overlap
           /\ LET a == SplitWS(chunks[k])
                  b == SplitWS(chunks[k + 1])
              IN  /\ Len(b) >= overlap
                  /\ SubSeq(b, 1, overlap) = SubSeq(a, Len(a) - overlap + 1, Len(a))

C4_Witness ==
  /\ cpc = "done" /\ 0 < overlap /\ overlap < maxLen
  /\ Len(wins) >= 3 /\ wins[1].len = maxLen /\ wins[2].len = maxLen

\* C5 as stated: a text with at most maxLen words gives exactly one chunk, and
\* that chunk's text is the input's words (texts without leading or trailing
\* whitespace, so that every token is a word).
C5_ShortTextOneChunk ==
  (cpc = "done" /\ Len(words) <= maxLen /\ NoEmptyWord) =>
     /\ Len(chunks) = 1
     /\ chunks[1] = JoinSp(words)

\* C6 as stated: Scenario C gives windows at 0, 680, 1360 of 800, 800, 400 words
C6_AsStated ==
  (cpc = "done" /\ text = ScenarioCText /\ maxLen = DefaultMaxLen /\ overlap = DefaultOverlap) =>
     wins = << [start |-> 0, len |-> 800], [start |-> 680, len |-> 800],
               [start |-> 1360, len |-> 400] >>

\* C6 amended: Scenario C (2000 words, maxLen 800, overlap 120) gives exactly 3
\* chunks whose windows start at 0, 680, 1360 and hold 800, 800 and 640 words.
C6_ScenarioC ==
  (cpc = "done" /\ text = ScenarioCText /\ maxLen = DefaultMaxLen /\ overlap = DefaultOverlap) =>
     /\ Len(words) = ScenarioCWords
     /\ Len(chunks) = 3
     /\ wins = << [start |-> 0, len |-> 800], [start |-> 680, len |-> 800],
                  [start |-> 1360, len |-> 640] >>
     /\ \A k \in 1..3 : ChunkHoldsWindow(k)

C6_Witness ==
  cpc = "done" /\ text = ScenarioCText /\ maxLen = DefaultMaxLen /\ Len(chunks) = 3

(***************************************************************************)
(* Properties of the answer synthesis                                      *)
(***************************************************************************)
Answered == qpc \in {"return", "done"} /\ hits # <<>>

PrimaryText == ToLowerCase(JoinedText(primaryContexts))

\* the keyword sets as C11 lists them
ListedCertificateKeywords ==
  CertificateKeywords \cup {<<"c", "e", "r", "t", "i", "f", "i", "c", "a", "t", "i", "o", "n">>, <<"d", "i", "p", "l", "o", "m", "a">>, <<"a", "c", "h", "i", "e", "v", "e", "m", "e", "n", "t">>}
ListedReportKeywords == {<<"r", "e", "p", "o", "r", "t">>, <<"a", "n", "a", "l", "y", "s", "i", "s">>}

ListedDocType(allText) ==
  IF IncludesAny(allText, ListedCertificateKeywords) THEN "certificate"
  ELSE IF IncludesAny(allText, FinancialKeywords) THEN "financial"
  ELSE IF IncludesAny(allText, ResumeKeywords) THEN "resume"
  ELSE IF IncludesAny(allText, ChartKeywords) THEN "chart"
  ELSE IF IncludesAny(allText, ListedReportKeywords) THEN "report"
  ELSE "general"

\* C11: detectDocumentType returns the label of the first of the sets
\* certificate {certificate, certification, awarded, presented, issued,
\* diploma, achievement}, financial, resume, chart, report {report, analysis}
\* that has a member in the lowercased joined text, and general when none has.
C11_ListedKeywordSets ==
  Answered => documentType = ListedDocType(PrimaryText)

\* C12: when no context is above the threshold, queryRAG returns the answer
\* "No relevant context found." and an empty list of contexts.
C12_NoContextAnswer ==
  (qpc = "done" /\ hits = <<>>)
    => /\ response.answer = <<"N", "o", " ", "r", "e", "l", "e", "v", "a", "n", "t", " ", "c", "o", "n", "t", "e", "x", "t", " ", "f", "o", "u", "n", "d", ".">>
       /\ response.contexts = <<>>
       /\ handler = "none"

\* retrieval handed chunks back, none of them above the threshold
C12_Witness ==
  qpc = "done" /\ hits = <<>> /\ fetched # <<>>

Asks(kw) == Includes(ToLowerCase(question), kw)

HandlerOrder == <<"certificate", "name", "course", "organization", "date", "summary">>

\* the keywords of a handler match the question (for the certificate handler,
\* also: the document is a certificate)
KeywordsMatch(h) ==
  CASE h = "certificate"  -> documentType = "certificate" \/ Asks(<<"c", "e", "r", "t", "i", "f", "i", "c", "a", "t", "e">>) \/ Asks(<<"c", "e", "r", "t", "i", "f", "i", "c", "a", "t", "i", "o", "n">>)
    [] h = "name"         -> Asks(<<"n", "a", "m", "e">>) \/ Asks(<<"w", "h", "o">>)
    [] h = "course"       -> Asks(<<"c", "o", "u", "r", "s", "e">>) \/ Asks(<<"t", "r", "a", "i", "n", "i", "n", "g">>) \/ Asks(<<"p", "r", "o", "g", "r", "a", "m">>)
    [] h = "organization" -> Asks(<<"c", "o", "m", "p", "a", "n", "y">>) \/ Asks(<<"o", "r", "g", "a", "n", "i", "z", "a", "t", "i", "o", "n">>) \/ Asks(<<"i", "s", "s", "u", "e", "d", " ", "b", "y">>)
    [] h = "date"         -> Asks(<<"d", "a", "t", "e">>) \/ Asks(<<"w", "h", "e", "n">>) \/ Asks(<<"y", "e", "a", "r">>) \/ Asks(<<"t", "i", "m", "e">>)
    [] h = "summary"      -> Asks(<<"s", "u", "m", "m", "a", "r", "y">>) \/ Asks(<<"o", "v", "e", "r", "v", "i", "e", "w">>) \/ Asks(<<"a", "b", "o", "u", "t">>) \/ Asks(<<"w", "h", "a", "t", " ", "i", "s">>)

PrimaryCleaned == cleanAndFormatText(JoinedText(primaryContexts))

CertInfo == extractCertificateInfo(PrimaryCleaned)

\* the fields of the certificate that resolved, as label and value, in order
ResolvedFields ==
  SelectSeq(<< [label |-> <<"*", "*", "C", "e", "r", "t", "i", "f", "i", "c", "a", "t", "e", " ", "T", "y", "p", "e", ":", "*", "*", " ">>, value |-> CertInfo.type],
               [label |-> <<"*", "*", "I", "s", "s", "u", "e", "d", " ", "B", "y", ":", "*", "*", " ">>, value |-> CertInfo.issuer],
               [label |-> <<"*", "*", "R", "e", "c", "i", "p", "i", "e", "n", "t", ":", "*", "*", " ">>, value |-> CertInfo.recipient],
               [label |-> <<"*", "*", "C", "o", "u", "r", "s", "e", "/", "P", "r", "o", "g", "r", "a", "m", ":", "*", "*", " ">>, value |-> CertInfo.course],
               [label |-> <<"*", "*", "D", "a", "t", "e", ":", "*", "*", " ">>, value |-> CertInfo.date] >>,
            LAMBDA f : f.value # Unknown)

\* what the extraction of a handler yields
Extracted(h) ==
  CASE h = "certificate"  -> IF ResolvedFields # <<>> THEN ResolvedFields
                             ELSE LongSentences(PrimaryCleaned, 15)
    [] h = "name"         -> extractNames(primaryContexts[1].text)
    [] h = "course"       -> extractCourses(primaryContexts[1].text)
    [] h = "organization" -> extractOrganizations(primaryContexts[1].text)
    [] h = "date"         -> extractDates(primaryContexts[1].text)
    [] h = "summary"      -> Flatten([k \in 1..Len(primaryContexts) |->
                               LongSentences(cleanAndFormatText(primaryContexts[k].text), 20)])

Productive(h) == KeywordsMatch(h) /\ Extracted(h) # <<>>

FirstProductive ==
  IF \E k \in 1..Len(HandlerOrder) : Productive(HandlerOrder[k])
    THEN HandlerOrder[CHOOSE k \in 1..Len(HandlerOrder) :
                        /\ Productive(HandlerOrder[k])
                        /\ \A j \in 1..(k - 1) : ~Productive(HandlerOrder[j])]
    ELSE "default"

\* C13: the answer comes from the first handler, in precedence order, whose
\* keywords match and whose extraction yields at least one item; a handler
\* that matches but extracts nothing is passed over, down to the generic
\* fallback.
C13_FirstProductiveHandlerWins ==
  Answered => handler = FirstProductive

\* C14: when the certificate handler is triggered and at least one of type,
\* issuer, recipient, course, date resolves, the answer is the list of the
\* resolved fields, without any "Unknown" line; only when none resolves is it
\* the fallback of up to 3 cleaned sentences.
C14_ResolvedFieldsAreListed ==
  (Answered /\ handler = "certificate")
    => IF ResolvedFields # <<>>
         THEN answer = JoinWith([k \in 1..Len(ResolvedFields) |->
                                   ResolvedFields[k].label \o ResolvedFields[k].value], <<LF>>)
         ELSE answer = CertificateFallback(PrimaryCleaned)

\* the lines of a string
LinesOf(a) ==
  LET starts == { p \in 1..(Len(a) + 1) : p = 1 \/ a[p - 1] = LF }
      ends   == { p \in 0..Len(a) : p = Len(a) \/ a[p + 1] = LF }
  IN  { SubSeq(a, w[1], w[2]) :
          w \in { x \in starts \X ends :
                    x[1] <= x[2] + 1 /\ \A k \in x[1]..x[2] : a[k] # LF } }

HasLineWith(label, value) ==
  \E line \in LinesOf(answer) :
    /\ Len(line) >= Len(label) /\ SubSeq(line, 1, Len(label)) = label
    /\ Includes(line, value)

\* C15: for the single context of Scenario A and the question "what is this
\* about", the type is certificate and the answer has a Recipient line with
\* John Smith, a Course line with Data Science, an Issued-By line with
\* Coursera, a Date line with June 1, 2023, and no line holding "Unknown".
C15_ScenarioA ==
  (/\ Answered
   /\ question = ScenarioAQuestion
   /\ Len(hits) = 1 /\ hits[1].text = ScenarioAText)
    => /\ documentType = "certificate"
       /\ HasLineWith(<<"*", "*", "R", "e", "c", "i", "p", "i", "e", "n", "t", ":", "*", "*">>, <<"J", "o", "h", "n", " ", "S", "m", "i", "t", "h">>)
       /\ HasLineWith(<<"*", "*", "C", "o", "u", "r", "s", "e", "/", "P", "r", "o", "g", "r", "a", "m", ":", "*", "*">>, <<"D", "a", "t", "a", " ", "S", "c", "i", "e", "n", "c", "e">>)
       /\ HasLineWith(<<"*", "*", "I", "s", "s", "u", "e", "d", " ", "B", "y", ":", "*", "*">>, <<"C", "o", "u", "r", "s", "e", "r", "a">>)
       /\ HasLineWith(<<"*", "*", "D", "a", "t", "e", ":", "*", "*">>, <<"J", "u", "n", "e", " ", "1", ",", " ", "2", "0", "2", "3">>)
       /\ ~Includes(answer, Unknown)

Handlers == {"certificate", "name", "course", "organization", "date", "summary", "default"}

Kept(t) == Len(Trim(t)) > 10 /\ \E p \in 1..Len(t) : t[p] \in Letters

\* the documents of file k in a state s of the Chunk collection
StoredIn(s, k) == SelectSeq(s, LAMBDA d : d.docId = DocId(k))

\* the extraction of file k is over and did not throw
PastExtraction(k) == fpc[k] \notin {"idle", "extract"} /\ ~files[k].broken

\* C17: every document in the store has a text of more than 10 characters
\* once trimmed and with at least one letter; a file none of whose records
\* passes this filter (whether it has records or not) has returned count 0
\* without throwing, its embedTexts call was never made and the store holds
\* nothing of it.
C17_OnlyMeaningfulChunksPersisted ==
  /\ \A j \in 1..Len(store) : Kept(store[j].text)
  /\ \A k \in 1..Len(files) :
        ( PastExtraction(k) /\ \A j \in 1..Len(records[k]) : ~Kept(records[k][j].text) )
          => /\ fpc[k] = "returned"
             /\ result[k] = 0
             /\ epc[k] = "off"
             /\ StoredIn(store, k) = <<>>

\* a file with records, none of them kept, has returned after an earlier file
\* of the request was stored
C17_Witness ==
  /\ store # <<>>
  /\ \E k \in 1..Len(files) :
        /\ fpc[k] = "returned" /\ records[k] # <<>>
        /\ \A j \in 1..Len(records[k]) : ~Kept(records[k][j].text)

\* C18: the j-th document handed to insertMany holds the j-th vector
\* embedTexts returned, the j-th text given to embedTexts is that document's
\* text (so the vector is the model's output for it unless the model failed
\* on it), every document holds the docId of its file, and once the call
\* has returned its count is the number of documents handed over, which are
\* what the store holds of the file.
C18_VectorsAlignedWithRecords ==
  \A k \in 1..Len(files) :
     docs[k] # <<>> =>
       /\ Len(docs[k]) = Len(ret[k])
       /\ Len(docs[k]) = Len(texts[k])
       /\ \A j \in 1..Len(docs[k]) :
             /\ docs[k][j].vector = ret[k][j]
             /\ docs[k][j].text = texts[k][j]
             /\ (j - 1) \notin failed[k]
                  => docs[k][j].vector = ModelOutput(CleanText(docs[k][j].text))
             /\ docs[k][j].docId = DocId(k)
       /\ fpc[k] = "returned"
            => (result[k] = Len(docs[k]) /\ StoredIn(store, k) = docs[k])

\* a file of two documents with different vectors has been stored
C18_Witness ==
  \E k \in 1..Len(files) :
     /\ fpc[k] = "returned" /\ Len(docs[k]) = 2
     /\ docs[k][1].vector # docs[k][2].vector
     /\ StoredIn(store, k) = docs[k]

\* C19: once the timeout of a file has been reported, the store gets no
\* further document of that file, and what it holds of the earlier files of
\* the request stays as it is.
C19_TimeoutAbortsThePipeline ==
  [][ \A k \in timedOut : \A j \in 1..k : StoredIn(store', j) = StoredIn(store, j) ]_vars

\* processFileAndIndex is at work on file k
Processing(k) == fpc[k] \in {"extract", "embed", "insert"}

\* C20: a file of the request is taken up only when every file before it has
\* returned or thrown, and at most one file is being processed at any time.
C20_FilesOneAtATime ==
  /\ \A j, k \in Callers : (j < k /\ fpc[k] # "idle") => fpc[j] \in {"returned", "threw"}
  /\ Cardinality({ k \in Callers : Processing(k) }) <= 1

\* the second file is being processed, the first one has returned
C20_Witness ==
  /\ Len(files) >= 2
  /\ fpc[1] = "returned" /\ Processing(2)

(***************************************************************************)
(* Properties of the progress stream of an upload                          *)
(***************************************************************************)
\* C21: a failure while sending a progress notification is always caught: with
\* a connection whose write throws, no exception reaches the process, a
\* request that would be answered 200 carries no error, and what each file's
\* pipeline returned is the number of records it wrote, each with the vector
\* embedTexts returned for it.
C21_NotificationFailureIsCaught ==
  conn = "broken" =>
     /\ timer # "uncaught"
     /\ rpc = "ok" => resError = "none"
     /\ \A k \in 1..Len(files) :
          fpc[k] = "returned" =>
             /\ result[k] = Len(StoredIn(store, k))
             /\ StoredIn(store, k) = docs[k]
             /\ \A j \in 1..Len(docs[k]) : docs[k][j].vector = ret[k][j]

\* the events the progressCallback of file k put on the stream, in order
Via(k) ==
  LET from(e) == e.via = k
  IN  SelectSeq(sse, from)

\* C22: every event delivered to the progress connection has a type from
\* {info, processing, success, error, complete}, and an event delivered for a
\* pipeline step has the type and the message that step passed to the
\* progress callback.
C22_DeliveredEventsAreAsPassed ==
  /\ \A e \in 1..Len(sse) :
        sse[e].type \in {"info", "processing", "success", "error", "complete"}
  /\ \A k \in 1..Len(files) :
        /\ Len(Via(k)) <= Len(events[k])
        /\ \A j \in 1..Len(Via(k)) :
              /\ Via(k)[j].type = events[k][j].type
              /\ Via(k)[j].message = events[k][j].msg

(***************************************************************************)
(* Properties of processFileAndIndex: progress, clean-up                   *)
(***************************************************************************)
\* the "Ingested N chunks" event has been passed to the callback of file k
IngestedReported(k) ==
  \E j \in 1..Len(events[k]) :
     events[k][j].type = "success" /\ events[k][j].msg[1] = "Ingested chunks"

\* C28: the "Ingested N chunks" success event of a file is emitted only once
\* the file's records have been written to the store; if the write fails, no
\* such event has been emitted for the file.
C28_IngestedEventOnlyAfterWrite ==
  \A k \in 1..Len(files) :
     IngestedReported(k) =>
        /\ thrown[k] # "insertMany failed"
        /\ docs[k] # <<>>
        /\ StoredIn(store, k) = docs[k]

\* C29: once processFileAndIndex has finished, be it with a count or with the
\* error of the extraction, the embedding or the write, the staged file is gone
\* from disk unless its removal failed, which is reported and otherwise
\* ignored: the call still returns its count or throws its own error.
C29_StagedFileRemoved ==
  \A k \in 1..Len(files) :
     fpc[k] \in {"returned", "threw"} =>
        /\ IF k \in staged
             THEN events[k][Len(events[k])] =
                    [type |-> "error", msg |-> <<"Failed to delete file">>]
             ELSE events[k][Len(events[k])] =
                    [type |-> "success", msg |-> <<"Deleted uploaded file">>]
        /\ fpc[k] = "returned" =>
             /\ thrown[k] = "none"
             /\ result[k] = Len(SelectSeq(ExtractedRecords(files[k]), IsMeaningful))
        /\ fpc[k] = "threw" =>
             /\ thrown[k] = (IF files[k].broken THEN "Invalid PDF structure"
                             ELSE IF epc[k] = "threw" THEN "Embedding generation failed"
                             ELSE "insertMany failed")

\* a file whose write failed and whose staged file is gone, after a file that
\* returned its count although the removal of its staged file failed
C29_Witness ==
  /\ Len(files) = 2
  /\ fpc[1] = "returned" /\ 1 \in staged /\ result[1] > 0
  /\ fpc[2] = "threw" /\ thrown[2] = "insertMany failed" /\ 2 \notin staged

(***************************************************************************)
(* Properties of vectorSearch and queryRAG                                 *)
(***************************************************************************)
\* a result of the store that the policy of vectorSearch lets through
Passes(r) ==
  /\ sourceFilter # <<>> => Includes(ToLowerCase(r.source), ToLowerCase(sourceFilter))
  /\ r.score > MinScore

\* the position in `nearest` of the h-th result that is let through
NthPassing(h) ==
  CHOOSE f \in 1..Len(nearest) :
     /\ Passes(nearest[f])
     /\ Cardinality({ g \in 1..(f - 1) : Passes(nearest[g]) }) = h - 1

\* C26: vectorSearch asks the store for a candidate pool of max(100, 10*topK)
\* and a limit of 3*topK; its result is exactly the first topK, in the order
\* of the store, of the fetched results that match the source filter
\* (case-insensitively, when one is given) and score above 0.4: the filter
\* comes before the threshold and the threshold before the truncation.
C26_SearchPolicy ==
  qpc \in {"answer", "return", "done"} =>
     /\ request.numCandidates = (IF 10 * topK > 100 THEN 10 * topK ELSE 100)
     /\ request.limit = 3 * topK
     /\ Len(nearest) <= request.limit
     /\ LET matches(r) == sourceFilter # <<>> =>
                            Includes(ToLowerCase(r.source), ToLowerCase(sourceFilter))
        IN  fetched = SelectSeq(nearest, matches)
     /\ LET n == Cardinality({ f \in 1..Len(nearest) : Passes(nearest[f]) })
        IN  Len(hits) = (IF n < topK THEN n ELSE topK)
     /\ \A h \in 1..Len(hits) : hits[h] = nearest[NthPassing(h)]

\* a filter is given; the best result is of another source and above the
\* threshold, and more results pass than topK allows
C26_Witness ==
  /\ qpc = "answer" /\ sourceFilter # <<>>
  /\ Len(nearest) = 3 /\ ~Passes(nearest[1]) /\ nearest[1].score > MinScore
  /\ Passes(nearest[2]) /\ Passes(nearest[3])
  /\ hits = <<nearest[2]>>

\* C23: queryRAG returns in contexts every context vectorSearch returned, in
\* the same order, with the fields text, metadata, source, page, type and
\* score, those of the non-primary sources included; the answer is the one
\* generateAnswer makes of the contexts of the primary source alone.
C23_AllContextsReturned ==
  qpc = "done" =>
     /\ Len(response.contexts) = Len(hits)
     /\ \A k \in 1..Len(hits) :
           /\ DOMAIN response.contexts[k] =
                {"text", "metadata", "source", "page", "type", "score"}
           /\ response.contexts[k].text = hits[k].text
           /\ response.contexts[k].metadata = <<>>
           /\ response.contexts[k].source = hits[k].source
           /\ response.contexts[k].page = hits[k].page
           /\ response.contexts[k].type = hits[k].type
           /\ response.contexts[k].score = hits[k].score
     /\ hits # <<>> =>
           LET ofPrimary(h) == h.source = primarySource
               primary == SelectSeq(hits, ofPrimary)
           IN  response.answer =
                 AnswerFor(question, primary, detectDocumentType(primary)).answer

\* three contexts are returned; the best one is not of the primary source
C23_Witness ==
  /\ qpc = "done" /\ Len(hits) = 3
  /\ hits[1].source # primarySource
  /\ Len(response.contexts) = 3 /\ response.contexts[1].source = hits[1].source

(***************************************************************************)
(* Properties of generateContextualAnswer                                  *)
(***************************************************************************)
\* the cleaned text of the first context of the primary group, cut at the
\* runs of sentence marks
FirstSentences == SplitSentences(cleanAndFormatText(primaryContexts[1].text))

\* the sentences that are longer than 10 characters and hold a letter
Qualifying ==
  { s \in 1..Len(FirstSentences) :
       /\ Len(Trim(FirstSentences[s])) > 10
       /\ \E p \in 1..Len(FirstSentences[s]) : FirstSentences[s][p] \in Letters }

\* the number of question words of length > 3 that sentence s contains
WordCount(s) ==
  LET qw == SplitWS(ToLowerCase(question))
  IN  Cardinality({ w \in 1..Len(qw) :
                      Len(qw[w]) > 3 /\ Includes(ToLowerCase(FirstSentences[s]), qw[w]) })

\* C27: the generic fallback uses only the first context of the primary
\* group; of its sentences that are longer than 10 characters and contain a
\* letter it returns (under its heading) the one with the most question words
\* of length > 3, the earliest of them when several tie, and the first 100
\* characters of the context when no sentence qualifies.
C27_BestSentenceOfFirstContext ==
  (Answered /\ handler = "default") =>
     IF Qualifying = {}
       THEN answer = <<"*", "*", "B", "a", "s", "e", "d", " ", "o", "n", " ", "t", "h", "e", " ", "d", "o", "c", "u", "m", "e", "n", "t", ":", "*", "*">> \o <<LF>>
                       \o Trim(Substring0(cleanAndFormatText(primaryContexts[1].text), 100))
       ELSE \E s \in Qualifying :
               /\ \A t \in Qualifying : WordCount(t) <= WordCount(s)
               /\ \A t \in Qualifying : t < s => WordCount(t) < WordCount(s)
               /\ answer = <<"*", "*", "B", "a", "s", "e", "d", " ", "o", "n", " ", "t", "h", "e", " ", "d", "o", "c", "u", "m", "e", "n", "t", ":", "*", "*">> \o <<LF>> \o Trim(FirstSentences[s])

\* two sentences tie with one question word each and the earlier is returned,
\* while a second context of the primary source holds a sentence with two
C27_Witness ==
  /\ Answered /\ handler = "default" /\ Len(primaryContexts) = 2
  /\ Cardinality(Qualifying) = 2
  /\ \A s \in Qualifying : WordCount(s) = 1
  /\ answer = <<"*", "*", "B", "a", "s", "e", "d", " ", "o", "n", " ", "t", "h", "e", " ", "d", "o", "c", "u", "m", "e", "n", "t", ":", "*", "*">> \o <<LF>> \o <<"W", "e", " ", "t", "e", "l", "l", " ", "l", "o", "n", "g", " ", "s", "t", "o", "r", "i", "e", "s">>

(***************************************************************************)
(* Termination of chunkText                                                *)
(***************************************************************************)
\* C30: chunkText terminates for every text, maxLen and overlap, overlap >=
\* maxLen included: every iteration moves the start index of the window on by
\* at least 1, and there are never more windows than words (the tokens the
\* split of the text gives).
C30_ChunkTextTerminates ==
  /\ <>(cpc = "done")
  /\ [][(cpc = "loop" /\ cpc' = "loop") => (i' >= i + 1 /\ Len(chunks') = Len(chunks) + 1)]_vars
  /\ [](Len(chunks) <= Len(words) /\ (cpc = "loop" => Len(chunks) <= i))

\* the overlap is not below maxLen and every word starts a window of its own
C30_Witness ==
  /\ cpc = "done" /\ overlap >= maxLen /\ maxLen >= 1
  /\ Len(words) >= 3 /\ Len(chunks) = Len(words)

(***************************************************************************)
(* Properties of the server: an upload and a query at once                 *)
(***************************************************************************)
\* C24: the persisted chunks only grow: whatever step an ingestion or a query
\* takes, timeouts and failed writes included, every chunk the store held
\* before is still there, in its place and with its fields unchanged; a step
\* of the query leaves the store as it is.
C24_StoreOnlyGrows ==
  [][ /\ Len(store') >= Len(store)
      /\ SubSeq(store', 1, Len(store)) = store
      /\ qpc' # qpc => store' = store ]_vars

\* the query is through, the upload has timed out and has still added its
\* chunk behind the one that was there before
C24_Witness ==
  /\ qpc = "done" /\ hits # <<>>
  /\ 1 \in timedOut /\ rpc = "error"
  /\ Len(store) = 2 /\ store[1] = Committed[1] /\ store[2].docId = DocId(1)

\* C25: if the load of the model fails, embedTexts throws and
\* returns no vectors, the ingestion or query request that triggered the load
\* fails with that error, and no record of the file is written.
C25_LoadFailureFailsTheRequest ==
  /\ \A k \in 1..Len(files) :
        epc[k] = "threw" =>
           /\ ret[k] = <<>>
           /\ StoredIn(store, k) = <<>>
           /\ fpc[k] \in {"embed", "threw"}
           /\ fpc[k] = "threw" => thrown[k] = "Embedding generation failed"
           /\ (fpc[k] = "threw" /\ fk >= k) =>
                 (rpc = "error" /\ resError = "Embedding generation failed")
  /\ epc[QueryCaller] = "threw" =>
        /\ ret[QueryCaller] = <<>>
        /\ qpc \in {"embed", "failed"}
        /\ response = [answer |-> <<>>, contexts |-> <<>>]

====
